---- MODULE Spec2Model ----
(***************************************************************************)
(* Darknote: the note store (src/lib/db.ts) and the route handlers that    *)
(* drive a note's lifecycle (src/app/api/notes/route.ts,                   *)
(* src/app/api/notes/[id]/increment/route.ts).                             *)
(*                                                                         *)
(* Concurrency model.  Every db.ts function runs one SQL statement in      *)
(* autocommit mode; no handler opens a transaction.  The database is a     *)
(* file opened in WAL mode (db.ts:29-31) that several server processes can *)
(* open at once, so the statements of two requests may interleave.  A      *)
(* process is one in-flight request; one action is one SQL statement of a  *)
(* handler together with the handler code that follows it up to the next   *)
(* statement or the response.                                              *)
(***************************************************************************)
EXTENDS Integers, FiniteSets, Sequences, TLC

\* ------------------------------------------------------------------ bounds
MaxMaxReads == 2      \* largest read limit a sender asks for in the model
MaxCount == 4         \* cap on currentReads (keeps the counter finite)
MaxTime == 1          \* Date.now() ranges over 0..MaxTime

\* the policy cap of the create route
MaxReadsCap == 1000

AllProcs == {"p1", "p2", "p3"}      \* request slots
Procs == {"p1", "p2"}               \* the requests in flight in the open system
NoteIds == {"n1", "n2"}
OpenIds == {"n1"}                   \* the ids the open system's clients use
Addresses == {"w1", "w2"}           \* base58 strings that are Solana addresses

\* JavaScript null: for maxReads, and for a missing row / missing local
NullReads == -1
Null == [null |-> TRUE]

\* ------------------------------------------------------------------ values

\* a Uint8Array: its length and its content
Bytes(len, v) == [len |-> len, v |-> v]

\* tweetnacl-util encodeBase64: the string that encodes the bytes
encodeBase64(bytes) == [b64 |-> bytes, junk |-> FALSE]

\* String.length of a base64 string: 4 characters for every 3 bytes, padded;
\* junk is a character outside the base64 alphabet
StringLength(s) == 4 * ((s.b64.len + 2) \div 3) + (IF s.junk THEN 1 ELSE 0)

\* the largest ciphertext string the create route stores
MaxCiphertextLength == 100000

\* bytes whose content the model does not look into
Opaque(name) == [opaque |-> name]

Ciphertexts ==
    {encodeBase64(Bytes(17, Opaque("c1"))), encodeBase64(Bytes(17, Opaque("c2")))}

\* a ciphertext string above the size limit of the create route
LargeCiphertext == encodeBase64(Bytes(MaxCiphertextLength, Opaque("c1")))

\* the nonce and ephemeral public key strings of the requests whose payload
\* is not looked at
SomeNonce == encodeBase64(Bytes(24, Opaque("nonce")))
SomeEphemeralPublicKey == encodeBase64(Bytes(32, Opaque("epk")))

\* JSON values of the maxReads field: null, a string, a number; a number is
\* value, or value + 1/2 when half is set (a number that is not an integer)
JNull == [type |-> "null"]
JString == [type |-> "string"]
JNumber(v) == [type |-> "number", value |-> v, half |-> FALSE]
JNumberAndHalf(v) == [type |-> "number", value |-> v, half |-> TRUE]

\* ------------------------------------------------------------------ crypto.ts
\* tweetnacl is modelled by its contract: X25519 key agreement gives the
\* same shared key from (public A, secret B) and from (public B, secret A)
\* and from no other pair; the box opens under the shared key and nonce it
\* was made with and under no other.

\* a thrown Error
Thrown(message) == [error |-> message]

\* a value is a thrown Error
IsThrown(x) == "error" \in DOMAIN x

\* tweetnacl-util decodeBase64: throws on a character outside the alphabet
decodeBase64(s) == IF s.junk THEN Thrown("invalid encoding") ELSE s.b64

\* tweetnacl-util decodeUTF8: the bytes of a text
decodeUTF8(text) == Bytes(Len(text), [utf8 |-> text])

\* a returned string
Returned(text) == [text |-> text]

\* tweetnacl-util encodeUTF8: the text of bytes; throws on bytes that are
\* not the UTF-8 encoding of a text
encodeUTF8(bytes) ==
    IF "utf8" \in DOMAIN bytes.v THEN Returned(bytes.v.utf8)
    ELSE Thrown("invalid utf8")

\* nacl.box.keyPair.fromSecretKey: the public key is a function of the
\* secret key
nacl_box_keyPair_fromSecretKey(secretKey) ==
    [publicKey |-> Bytes(32, [pk |-> secretKey.v]), secretKey |-> secretKey]

\* nacl.box.keyPair(): a keypair from random bytes r
nacl_box_keyPair(r) == nacl_box_keyPair_fromSecretKey(Bytes(32, [random |-> r]))

\* nacl.randomBytes(n), r being the random draw
nacl_randomBytes(n, r) == Bytes(n, [random |-> r])

\* nacl.hash(bytes).slice(0, 32)
nacl_hash_slice32(bytes) == Bytes(32, [hash |-> bytes.v])

\* nacl.box.before: the shared key of a public key and a secret key, the two
\* secret scalars it is made of
nacl_box_before(publicKey, secretKey) ==
    <<IF "pk" \in DOMAIN publicKey.v THEN publicKey.v.pk ELSE publicKey.v,
      secretKey.v>>

\* mutant of SameSharedKey: the agreement is not symmetric
SameSharedKey_Ordered(k1, k2) == k1 = k2

\* two shared keys are the same key: made of the same two scalars
SameSharedKey(k1, k2) == k1 = k2 \/ k1 = <<k2[2], k2[1]>>

\* nacl.box(message, nonce, publicKey, secretKey): 16 bytes of authenticator
\* and the message under the shared key and the nonce
nacl_box(message, nonce, publicKey, secretKey) ==
    Bytes(message.len + 16,
          [box |-> message, nonce |-> nonce,
           key |-> nacl_box_before(publicKey, secretKey)])

\* the key and nonce lengths nacl.box.open checks before it opens
BadSizes(nonce, publicKey, secretKey) ==
    nonce.len # 24 \/ publicKey.len # 32 \/ secretKey.len # 32

\* mutant of nacl_box_open: the authenticator is not checked
nacl_box_open_Unauthenticated(box, nonce, publicKey, secretKey) ==
    IF BadSizes(nonce, publicKey, secretKey) THEN Thrown("bad size")
    ELSE IF "box" \in DOMAIN box.v THEN box.v.box ELSE Null

\* mutant of nacl_box_open: the nonce is not compared
nacl_box_open_AnyNonce(box, nonce, publicKey, secretKey) ==
    IF BadSizes(nonce, publicKey, secretKey) THEN Thrown("bad size")
    ELSE IF /\ "box" \in DOMAIN box.v
            /\ SameSharedKey(box.v.key, nacl_box_before(publicKey, secretKey))
    THEN box.v.box
    ELSE Null

\* nacl.box.open(box, nonce, publicKey, secretKey): the message, or null
\* when the authenticator does not verify
nacl_box_open(box, nonce, publicKey, secretKey) ==
    IF BadSizes(nonce, publicKey, secretKey) THEN Thrown("bad size")
    ELSE IF /\ "box" \in DOMAIN box.v
            /\ box.v.nonce = nonce
            /\ SameSharedKey(box.v.key, nacl_box_before(publicKey, secretKey))
    THEN box.v.box
    ELSE Null

\* mutant of encryptMessage: the length of the key is not checked
encryptMessage_AnyLength(message, recipientPublicKey, e, r) ==
    LET recipientPubKeyBytes == decodeBase64(recipientPublicKey)
        ephemeralKeypair == nacl_box_keyPair(e)
        nonce == nacl_randomBytes(24, r)
        messageBytes == decodeUTF8(message)
    IN  IF IsThrown(recipientPubKeyBytes) THEN recipientPubKeyBytes
        ELSE [ciphertext |-> encodeBase64(nacl_box(messageBytes, nonce,
                                 recipientPubKeyBytes, ephemeralKeypair.secretKey)),
              nonce |-> encodeBase64(nonce),
              ephemeralPublicKey |-> encodeBase64(ephemeralKeypair.publicKey)]

\* mutant of encryptMessage: one ephemeral keypair, made once and used by
\* every call
encryptMessage_StaticEphemeral(message, recipientPublicKey, e, r) ==
    LET recipientPubKeyBytes == decodeBase64(recipientPublicKey)
        ephemeralKeypair == nacl_box_keyPair("static")
        nonce == nacl_randomBytes(24, r)
        messageBytes == decodeUTF8(message)
    IN  IF IsThrown(recipientPubKeyBytes) THEN recipientPubKeyBytes
        ELSE IF recipientPubKeyBytes.len # 32
        THEN Thrown("Invalid recipient public key (must be 32 bytes)")
        ELSE [ciphertext |-> encodeBase64(nacl_box(messageBytes, nonce,
                                 recipientPubKeyBytes, ephemeralKeypair.secretKey)),
              nonce |-> encodeBase64(nonce),
              ephemeralPublicKey |-> encodeBase64(ephemeralKeypair.publicKey)]

\* encryptMessage(message, recipientPublicKey), e and r being the random
\* draws of the ephemeral keypair and of the nonce
encryptMessage(message, recipientPublicKey, e, r) ==
    LET recipientPubKeyBytes == decodeBase64(recipientPublicKey)
        ephemeralKeypair == nacl_box_keyPair(e)
        nonce == nacl_randomBytes(24, r)
        messageBytes == decodeUTF8(message)
    IN  IF IsThrown(recipientPubKeyBytes) THEN recipientPubKeyBytes
        ELSE IF recipientPubKeyBytes.len # 32
        THEN Thrown("Invalid recipient public key (must be 32 bytes)")
        ELSE [ciphertext |-> encodeBase64(nacl_box(messageBytes, nonce,
                                 recipientPubKeyBytes, ephemeralKeypair.secretKey)),
              nonce |-> encodeBase64(nonce),
              ephemeralPublicKey |-> encodeBase64(ephemeralKeypair.publicKey)]

\* decryptMessage(ciphertext, nonce, ephemeralPublicKey, recipientSecretKey):
\* the text, or the Error its catch block throws
decryptMessage(ciphertext, nonce, ephemeralPublicKey, recipientSecretKey) ==
    LET ciphertextBytes == decodeBase64(ciphertext)
        nonceBytes == decodeBase64(nonce)
        ephemeralPubKeyBytes == decodeBase64(ephemeralPublicKey)
        recipientSecretKeyBytes == decodeBase64(recipientSecretKey)
    IN  IF \/ IsThrown(ciphertextBytes) \/ IsThrown(nonceBytes)
           \/ IsThrown(ephemeralPubKeyBytes) \/ IsThrown(recipientSecretKeyBytes)
        THEN Thrown("Decryption failed")
        ELSE LET decrypted == nacl_box_open(ciphertextBytes, nonceBytes,
                                            ephemeralPubKeyBytes, recipientSecretKeyBytes)
             IN  IF decrypted = Null \/ IsThrown(decrypted)
                 THEN Thrown("Decryption failed")
                 ELSE IF IsThrown(encodeUTF8(decrypted))
                 THEN Thrown("Decryption failed")
                 ELSE encodeUTF8(decrypted)

\* the wallet's signMessage: the Ed25519 signature of the bytes by the wallet
signMessage(wallet, message) == Bytes(64, [signer |-> wallet, signed |-> message.v])

\* the message deriveEncryptionKeyFromSignature asks the wallet to sign
\* (crypto.ts:122)
Challenge(walletAddress) ==
    decodeUTF8("DarkNote encryption key for " \o walletAddress)

\* mutant of deriveAfterSigning: a rejection gives the keypair of no bytes
deriveAfterSigning_KeypairOnReject(signed, walletAddress) ==
    LET seed == nacl_hash_slice32(IF IsThrown(signed) THEN Bytes(0, Opaque("none"))
                                  ELSE signed)
        keypair == nacl_box_keyPair_fromSecretKey(seed)
    IN  [publicKey |-> encodeBase64(keypair.publicKey),
         secretKey |-> encodeBase64(keypair.secretKey)]

\* mutant of deriveAfterSigning: the address is hashed into the seed
deriveAfterSigning_SeedsWithAddress(signed, walletAddress) ==
    IF IsThrown(signed) THEN signed
    ELSE LET seed == Bytes(32, [hash |-> signed.v, salt |-> walletAddress])
             keypair == nacl_box_keyPair_fromSecretKey(seed)
         IN  [publicKey |-> encodeBase64(keypair.publicKey),
              secretKey |-> encodeBase64(keypair.secretKey)]

\* deriveEncryptionKeyFromSignature from the await of signMessage on
\* (crypto.ts:125-134), signed being what the await gave: a signature, or
\* the Error signMessage rejected with, which the function lets through
deriveAfterSigning(signed, walletAddress) ==
    IF IsThrown(signed) THEN signed
    ELSE LET seed == nacl_hash_slice32(signed)
             keypair == nacl_box_keyPair_fromSecretKey(seed)
         IN  [publicKey |-> encodeBase64(keypair.publicKey),
              secretKey |-> encodeBase64(keypair.secretKey)]

\* deriveEncryptionKeyFromSignature(signMessage, walletAddress), wallet
\* being the wallet whose signMessage is passed and signs
deriveEncryptionKeyFromSignature(wallet, walletAddress) ==
    deriveAfterSigning(signMessage(wallet, Challenge(walletAddress)), walletAddress)

VARIABLES
    notes,      \* table notes: a function from the ids of the rows to the rows
    now,        \* Date.now()
    pc,         \* pc[p]: the statement request p runs next, "idle" between requests
    op,         \* op[p]: the route of p's current or last request
    rid,        \* rid[p]: the id parameter of that request
    loc,        \* loc[p]: the handler's locals (note, updatedNote, results of db calls)
    resp,       \* resp[p]: the response of p's last finished request, Null while running
    used,       \* ids generateNoteId has produced so far
    gone,       \* gone[id]: how often, by what and at which count the row of id was removed
    succ,       \* succ[id]: number of increment requests answered with success
    purged,     \* the last deleteOldNotes call: its argument and its return value
    registered_keys,    \* table registered_keys: the set of its rows
    kresp,      \* kresp[p]: p's last request to a key route and its response
    lastRegistered,     \* lastRegistered[a]: the key of the last register answered 200
    message,    \* the text given to encryptMessage
    keypair,    \* keypair[1]: the recipient's keypair, keypair[2]: another one
    encrypted,  \* what encryptMessage returned
    decrypted,  \* the key decryptMessage was called with and what it returned
    derived,    \* derived[i]: run i of deriveEncryptionKeyFromSignature, Null before it
    holds,      \* holds[w]: the secret keys the holder of wallet w has derived
    flow,       \* flow[p]: the state of the page open in client p
    wire        \* wire[p]: the last request client p has sent

\* the variables of the note routes
noteVars == <<notes, now, pc, op, rid, loc, resp, used, gone, succ, purged>>

\* the variables of the key directory
dirVars == <<registered_keys, kresp, lastRegistered>>

\* the variables of a run of encryptMessage and decryptMessage
cryptoVars == <<message, keypair, encrypted, decrypted, derived>>

\* the variables of the pages
flowVars == <<holds, flow, wire>>

\* the variables of the key directory and of the clients
keyVars == <<dirVars, cryptoVars, flowVars>>

vars == <<noteVars, keyVars>>

\* ------------------------------------------------------------------ db.ts

\* SELECT * FROM notes WHERE id = ?, with selfDestruct converted to a boolean
getNote(id) ==
    IF id \in DOMAIN notes
    THEN [notes[id] EXCEPT !.selfDestruct = (notes[id].selfDestruct = 1)]
    ELSE Null

\* mutant of incrementReadCountRows: the UPDATE has no WHERE clause
incrementReadCountRows_EveryRow(id) ==
    [i \in DOMAIN notes |-> [notes[i] EXCEPT !.currentReads = @ + 1]]

\* mutant of incrementReadCountRows: the UPDATE sets createdAt as well
incrementReadCountRows_TouchesCreatedAt(id) ==
    IF id \in DOMAIN notes
    THEN [notes EXCEPT ![id].currentReads = notes[id].currentReads + 1,
                       ![id].createdAt = now]
    ELSE notes

\* mutant of incrementReadCountRows: the count a request read at its getNote,
\* plus one, is written back
incrementReadCountRows_ReadThenWrite(id) ==
    IF id \in DOMAIN notes
    THEN LET readers == {p \in AllProcs : pc[p] = "incrementReadCount" /\ rid[p] = id}
             reader == CHOOSE p \in readers :
                          \A q \in readers :
                              loc[p].note.currentReads <= loc[q].note.currentReads
         IN  [notes EXCEPT ![id].currentReads = loc[reader].note.currentReads + 1]
    ELSE notes

\* UPDATE notes SET currentReads = currentReads + 1 WHERE id = ?
\* the table after the statement
incrementReadCountRows(id) ==
    IF id \in DOMAIN notes
    THEN [notes EXCEPT ![id].currentReads = notes[id].currentReads + 1]
    ELSE notes

\* mutant of getNoteRows: "Get a note by ID and increment read count"
getNoteRows_Increments(id) == incrementReadCountRows(id)

\* the table after getNote's SELECT: a read writes nothing
getNoteRows(id) == notes

\* result.changes > 0
incrementReadCount(id) == id \in DOMAIN notes

\* DELETE FROM notes WHERE id = ?: the table after the statement
deleteNoteRows(id) == [i \in DOMAIN notes \ {id} |-> notes[i]]

\* mutant of deleteNote: reports a removed row whether or not one existed
deleteNote_AlwaysTrue(id) == TRUE

\* result.changes > 0
deleteNote(id) == id \in DOMAIN notes

\* INSERT INTO notes ...: the row createNote stores.  maxReads is the JSON
\* value of the request; the column keeps null as NullReads and a number as
\* it is (maxReadsHalf: the number is maxReads + 1/2, stored as a REAL)
createNoteRow(note) ==
    [id |-> note.id, ciphertext |-> note.ciphertext, nonce |-> note.nonce,
     ephemeralPublicKey |-> note.ephemeralPublicKey,
     recipientAddress |-> note.recipientAddress,
     createdAt |-> now,
     selfDestruct |-> IF note.selfDestruct THEN 1 ELSE 0,
     maxReads |-> IF note.maxReads.type = "number" THEN note.maxReads.value
                  ELSE NullReads,
     maxReadsHalf |-> note.maxReads.type = "number" /\ note.maxReads.half,
     currentReads |-> 0]

\* mutant of createNoteThrows: INSERT OR REPLACE, a stored id is overwritten
createNoteThrows_Never(id) == FALSE

\* INSERT INTO notes: id is the PRIMARY KEY, stmt.run throws on a stored id
createNoteThrows(id) == id \in DOMAIN notes

\* the table after createNote's INSERT
createNoteRows(note) ==
    IF createNoteThrows(note.id)
    THEN notes
    ELSE [i \in DOMAIN notes \cup {note.id} |->
             IF i = note.id THEN createNoteRow(note) ELSE notes[i]]

\* mutant of deleteOldNotesIds: <= where the statement has <
deleteOldNotesIds_AtCutoff(maxAgeMs) ==
    {i \in DOMAIN notes : notes[i].createdAt <= now - maxAgeMs}

\* DELETE FROM notes WHERE createdAt < ?: the rows the statement removes
deleteOldNotesIds(maxAgeMs) ==
    {i \in DOMAIN notes : notes[i].createdAt < now - maxAgeMs}

\* the table after deleteOldNotes' DELETE
deleteOldNotesRows(maxAgeMs) ==
    [i \in DOMAIN notes \ deleteOldNotesIds(maxAgeMs) |-> notes[i]]

\* result.changes, the return value of deleteOldNotes
deleteOldNotes(maxAgeMs) == Cardinality(deleteOldNotesIds(maxAgeMs))

\* ------------------------------------------------------------------ helpers

\* currentReads >= maxReads, for a maxReads column that is maxReads or
\* maxReads + 1/2
AtLeastMaxReads(n) ==
    IF n.maxReadsHalf THEN n.currentReads > n.maxReads
    ELSE n.currentReads >= n.maxReads

\* mutant of Exhausted: > where the code has >=
Exhausted_StrictlyAbove(n) == n.maxReads # NullReads /\ n.currentReads > n.maxReads

\* mutant of Exhausted: the limit counts only for self-destructing notes
Exhausted_NeedsSelfDestruct(n) ==
    n.selfDestruct /\ n.maxReads # NullReads /\ AtLeastMaxReads(n)

\* mutant of Exhausted: the null check dropped
Exhausted_IgnoresNull(n) == AtLeastMaxReads(n)

\* note.maxReads !== null && note.currentReads >= note.maxReads
Exhausted(n) == n.maxReads # NullReads /\ AtLeastMaxReads(n)

NoLoc == [note |-> Null, updatedNote |-> Null, changed |-> FALSE, deleted |-> FALSE]

Response(status, deleted, currentReads) ==
    [status |-> status, deleted |-> deleted, currentReads |-> currentReads]

\* ever: a row of the id has been removed at some time
NotGone == [n |-> 0, by |-> "none", reads |-> 0, limit |-> NullReads, ever |-> FALSE]

\* bookkeeping of the statements that reported removing a row: ids are the ids
\* whose row a DELETE statement of handler `by` reported as removed
Removed(ids, by) ==
    [i \in NoteIds |->
        IF i \in ids
        THEN [n |-> gone[i].n + 1, by |-> by,
              reads |-> IF i \in DOMAIN notes THEN notes[i].currentReads
                        ELSE gone[i].reads,
              limit |-> IF i \in DOMAIN notes THEN notes[i].maxReads
                        ELSE gone[i].limit,
              ever |-> TRUE]
        ELSE gone[i]]

\* the ids a deleteNote(id) call reports as removed
Deleted(id) == IF deleteNote(id) THEN {id} ELSE {}

\* ------------------------------------------------------------------ Init

\* the texts a sender types
Messages == {"", "m", "hello"}

\* the draws of the random source
Randoms == {"r1", "r2"}

\* the keypairs clients hold: derived from a wallet's signature, or random
Keypairs ==
    {deriveEncryptionKeyFromSignature(w, w) : w \in Addresses}
        \cup {[publicKey |-> encodeBase64(nacl_box_keyPair(r).publicKey),
               secretKey |-> encodeBase64(nacl_box_keyPair(r).secretKey)] :
                  r \in Randoms}

\* the note table and the requests at start
InitNotes ==
    /\ notes = << >>
    /\ now = 0
    /\ pc = [p \in AllProcs |-> "idle"]
    /\ op = [p \in AllProcs |-> "none"]
    /\ rid = [p \in AllProcs |-> "n1"]
    /\ loc = [p \in AllProcs |-> NoLoc]
    /\ resp = [p \in AllProcs |-> Null]
    /\ used = {}
    /\ gone = [i \in NoteIds |-> NotGone]
    /\ succ = [i \in NoteIds |-> 0]
    /\ purged = Null

\* the key directory at start
InitDirectory ==
    /\ registered_keys = {}
    /\ kresp = [p \in AllProcs |-> Null]
    /\ lastRegistered = [a \in Addresses |-> Null]

\* no run of encryptMessage
NoCrypto ==
    /\ message = ""
    /\ keypair = [k \in 1 .. 2 |-> deriveEncryptionKeyFromSignature("w1", "w1")]
    /\ encrypted = Null
    /\ decrypted = Null
    /\ derived = [i \in 1 .. 2 |-> Null]

\* a page that has done nothing: the text typed, the recipient typed, the
\* note fetched, the text shown, what the wallet answered when asked to sign
NoFlow == [stage |-> "idle", message |-> "", recipientAddress |-> "",
           note |-> Null, shown |-> Null, signed |-> Null]

\* the pages at start
InitFlow ==
    /\ holds = [w \in Addresses |-> {}]
    /\ flow = [p \in AllProcs |-> NoFlow]
    /\ wire = [p \in AllProcs |-> Null]

\* the key directory and the clients at start
InitKeys ==
    /\ InitDirectory
    /\ NoCrypto
    /\ InitFlow

Init ==
    /\ InitNotes
    /\ InitKeys

\* ------------------------------------------------------------------ requests

\* the locals of a request that starts
Begin(p, route, id) ==
    /\ pc[p] = "idle"
    /\ op' = [op EXCEPT ![p] = route]
    /\ rid' = [rid EXCEPT ![p] = id]

\* crypto.ts generateNoteId: 16 random bytes, an id not produced before
generateNoteId(ids) == ids \ used

\* values a sender may send as maxReads: null, 0, a limit, a value above the cap
MaxReadsInputs ==
    {JNull, JNumber(0), JNumber(MaxReadsCap + 1)}
        \cup {JNumber(n) : n \in 1 .. MaxMaxReads}

\* POST /api/notes, line 46: the maxReads validation of the create route
\* maxReads !== null && (typeof maxReads !== 'number' || maxReads < 1 || maxReads > 1000)
InvalidMaxReads(maxReads) ==
    /\ maxReads.type # "null"
    /\ \/ maxReads.type # "number"
       \/ maxReads.value < 1
       \/ IF maxReads.half THEN maxReads.value >= MaxReadsCap
          ELSE maxReads.value > MaxReadsCap

\* the fields the create route requires (line 20)
RequiredFields == {"id", "ciphertext", "nonce", "ephemeralPublicKey", "recipientAddress"}

\* the destructured body (lines 9-17): selfDestruct = true and maxReads = null
\* when the field is absent
WithDefaults(body) ==
    [k \in DOMAIN body \cup {"selfDestruct", "maxReads"} |->
        IF k \in DOMAIN body THEN body[k]
        ELSE IF k = "selfDestruct" THEN TRUE ELSE JNull]

\* new PublicKey(address) does not throw
ValidAddress(address) == address \in Addresses

\* mutant of CreateRejects: a note for a recipient without a registered key
\* is refused
CreateRejects_NeedsRegisteredKey(note) ==
    \/ ~(RequiredFields \subseteq DOMAIN note)
    \/ ~ValidAddress(note.recipientAddress)
    \/ StringLength(note.ciphertext) > MaxCiphertextLength
    \/ InvalidMaxReads(note.maxReads)
    \/ \A r \in registered_keys : r.walletAddress # note.recipientAddress

\* lines 20-52: the create route answers 400
CreateRejects(note) ==
    \/ ~(RequiredFields \subseteq DOMAIN note)
    \/ ~ValidAddress(note.recipientAddress)
    \/ StringLength(note.ciphertext) > MaxCiphertextLength
    \/ InvalidMaxReads(note.maxReads)

\* the request body the sender page builds (page.tsx handleCreateNote)
CreateBody(id, ciphertext, selfDestruct, maxReads) ==
    [id |-> id, ciphertext |-> ciphertext, nonce |-> SomeNonce,
     ephemeralPublicKey |-> SomeEphemeralPublicKey, recipientAddress |-> "w1",
     selfDestruct |-> selfDestruct, maxReads |-> maxReads]

\* POST /api/notes (one statement: INSERT)
NotesPOST(p, body) ==
    LET note == WithDefaults(body)
        id == IF "id" \in DOMAIN body THEN body.id ELSE rid[p]
    IN
    /\ Begin(p, "create", id)
    /\ used' = used \cup {id}
    /\ loc' = [loc EXCEPT ![p] = NoLoc]
    /\ IF CreateRejects(note)
       THEN /\ resp' = [resp EXCEPT ![p] = Response(400, FALSE, 0)]
            /\ UNCHANGED <<notes, gone, succ>>
       ELSE IF createNoteThrows(id)
       THEN \* the catch block of the route answers 500
            /\ resp' = [resp EXCEPT ![p] = Response(500, FALSE, 0)]
            /\ UNCHANGED <<notes, gone, succ>>
       ELSE /\ notes' = createNoteRows(note)
            /\ gone' = [gone EXCEPT ![id] = [NotGone EXCEPT !.ever = gone[id].ever]]
            /\ succ' = [succ EXCEPT ![id] = 0]
            /\ resp' = [resp EXCEPT ![p] = Response(200, FALSE, 0)]
    /\ UNCHANGED <<now, pc, purged, keyVars>>

\* GET /api/notes/[id], first statement: getNote and the exhaustion check
NotesGET(p, id) ==
    /\ Begin(p, "fetch", id)
    /\ LET note == getNote(id) IN
       /\ loc' = [loc EXCEPT ![p] = [NoLoc EXCEPT !.note = note]]
       /\ IF note = Null
          THEN /\ resp' = [resp EXCEPT ![p] = Response(404, FALSE, 0)]
               /\ UNCHANGED pc
          ELSE IF Exhausted(note)
          THEN /\ resp' = [resp EXCEPT ![p] = Null]
               /\ pc' = [pc EXCEPT ![p] = "fetchDelete"]
          ELSE /\ resp' = [resp EXCEPT ![p] = Response(200, FALSE, note.currentReads)]
               /\ UNCHANGED pc
    /\ notes' = getNoteRows(id)
    /\ UNCHANGED <<now, used, gone, succ, purged, keyVars>>

\* GET /api/notes/[id], second statement: deleteNote of an exhausted note
NotesGETDelete(p) ==
    /\ pc[p] = "fetchDelete"
    /\ loc' = [loc EXCEPT ![p].deleted = deleteNote(rid[p])]
    /\ gone' = Removed(Deleted(rid[p]), "fetch")
    /\ notes' = deleteNoteRows(rid[p])
    /\ resp' = [resp EXCEPT ![p] = Response(404, FALSE, 0)]
    /\ pc' = [pc EXCEPT ![p] = "idle"]
    /\ UNCHANGED <<now, op, rid, used, succ, purged, keyVars>>

\* DELETE /api/notes/[id] (one statement)
NotesDELETE(p, id) ==
    /\ Begin(p, "delete", id)
    /\ LET deleted == deleteNote(id) IN
       /\ loc' = [loc EXCEPT ![p] = [NoLoc EXCEPT !.deleted = deleted]]
       /\ resp' = [resp EXCEPT ![p] =
                     IF deleted THEN Response(200, TRUE, 0) ELSE Response(404, FALSE, 0)]
    /\ gone' = Removed(Deleted(id), "delete")
    /\ notes' = deleteNoteRows(id)
    /\ UNCHANGED <<now, pc, used, succ, purged, keyVars>>

\* POST /api/notes/[id]/increment, line 11: the first getNote
IncrementPOST(p, id) ==
    /\ Begin(p, "increment", id)
    /\ LET note == getNote(id) IN
       /\ loc' = [loc EXCEPT ![p] = [NoLoc EXCEPT !.note = note]]
       /\ IF note = Null
          THEN /\ resp' = [resp EXCEPT ![p] = Response(404, FALSE, 0)]
               /\ UNCHANGED pc
          ELSE /\ resp' = [resp EXCEPT ![p] = Null]
               /\ pc' = [pc EXCEPT ![p] = "incrementReadCount"]
    /\ notes' = getNoteRows(id)
    /\ UNCHANGED <<now, used, gone, succ, purged, keyVars>>

\* line 21: incrementReadCount(id), its result dropped by the handler
IncrementPOSTIncrement(p) ==
    /\ pc[p] = "incrementReadCount"
    /\ rid[p] \in DOMAIN notes => notes[rid[p]].currentReads < MaxCount
    /\ loc' = [loc EXCEPT ![p].changed = incrementReadCount(rid[p])]
    /\ notes' = incrementReadCountRows(rid[p])
    /\ pc' = [pc EXCEPT ![p] = "getUpdatedNote"]
    /\ UNCHANGED <<now, op, rid, resp, used, gone, succ, purged, keyVars>>

\* updatedNote?.currentReads || note.currentReads + 1
ReportedReads(note, updatedNote) ==
    IF updatedNote # Null /\ updatedNote.currentReads # 0
    THEN updatedNote.currentReads
    ELSE note.currentReads + 1

\* lines 24-38: the second getNote, the threshold check, the response
IncrementPOSTCheck(p) ==
    /\ pc[p] = "getUpdatedNote"
    /\ LET updatedNote == getNote(rid[p]) IN
       /\ loc' = [loc EXCEPT ![p].updatedNote = updatedNote]
       /\ IF updatedNote # Null /\ Exhausted(updatedNote)
          THEN /\ pc' = [pc EXCEPT ![p] = "deleteNote"]
               /\ UNCHANGED <<resp, succ>>
          ELSE /\ pc' = [pc EXCEPT ![p] = "idle"]
               /\ resp' = [resp EXCEPT ![p] =
                    Response(200, FALSE, ReportedReads(loc[p].note, updatedNote))]
               /\ succ' = [succ EXCEPT ![rid[p]] = @ + 1]
    /\ notes' = getNoteRows(rid[p])
    /\ UNCHANGED <<now, op, rid, used, gone, purged, keyVars>>

\* lines 26-31: deleteNote(id) and the deleted: true response
IncrementPOSTDelete(p) ==
    /\ pc[p] = "deleteNote"
    /\ loc' = [loc EXCEPT ![p].deleted = deleteNote(rid[p])]
    /\ gone' = Removed(Deleted(rid[p]), "threshold")
    /\ notes' = deleteNoteRows(rid[p])
    /\ resp' = [resp EXCEPT ![p] = Response(200, TRUE, loc[p].updatedNote.currentReads)]
    /\ succ' = [succ EXCEPT ![rid[p]] = @ + 1]
    /\ pc' = [pc EXCEPT ![p] = "idle"]
    /\ UNCHANGED <<now, op, rid, used, purged, keyVars>>

\* db.ts deleteOldNotes(maxAgeMs), the periodic cleanup task
DeleteOldNotes(maxAgeMs) ==
    /\ gone' = Removed(deleteOldNotesIds(maxAgeMs), "purge")
    /\ notes' = deleteOldNotesRows(maxAgeMs)
    /\ purged' = [maxAgeMs |-> maxAgeMs, changes |-> deleteOldNotes(maxAgeMs)]
    /\ UNCHANGED <<now, pc, op, rid, loc, resp, used, succ, keyVars>>

\* the clock advances
Tick ==
    /\ now < MaxTime
    /\ now' = now + 1
    /\ UNCHANGED <<notes, pc, op, rid, loc, resp, used, gone, succ, purged, keyVars>>

\* ------------------------------------------------------------------ Spec
\* the open system: any requests, interleaved statement by statement.
\* Senders take the id of a new note from generateNoteId (page.tsx
\* handleCreateNote), so no id is created twice here; the create route itself
\* (NotesPOST) takes any id and answers 500 on a stored one.

Next ==
    \/ \E p \in Procs, id \in generateNoteId(OpenIds), c \in Ciphertexts,
          sd \in BOOLEAN, m \in MaxReadsInputs :
             NotesPOST(p, CreateBody(id, c, sd, m))
    \/ \E p \in Procs, id \in OpenIds : NotesGET(p, id)
    \/ \E p \in Procs : NotesGETDelete(p)
    \/ \E p \in Procs, id \in OpenIds : NotesDELETE(p, id)
    \/ \E p \in Procs, id \in OpenIds : IncrementPOST(p, id)
    \/ \E p \in Procs : IncrementPOSTIncrement(p)
    \/ \E p \in Procs : IncrementPOSTCheck(p)
    \/ \E p \in Procs : IncrementPOSTDelete(p)
    \/ \E a \in 0 .. MaxTime : DeleteOldNotes(a)
    \/ Tick

Spec == Init /\ [][Next]_vars

\* ------------------------------------------------------------------ SpecSeq
\* one client: requests run one after the other, each to its response, and the
\* cleanup task runs between requests

SeqProc == "p1"

NextSeq ==
    \/ \E id \in generateNoteId(NoteIds), c \in Ciphertexts,
          sd \in BOOLEAN, m \in MaxReadsInputs :
             NotesPOST(SeqProc, CreateBody(id, c, sd, m))
    \/ \E id \in NoteIds : NotesGET(SeqProc, id)
    \/ \E id \in NoteIds : NotesDELETE(SeqProc, id)
    \/ \E id \in NoteIds : IncrementPOST(SeqProc, id)
    \/ IncrementPOSTIncrement(SeqProc)
    \/ IncrementPOSTCheck(SeqProc)
    \/ IncrementPOSTDelete(SeqProc)
    \/ \E a \in 0 .. MaxTime : pc[SeqProc] = "idle" /\ DeleteOldNotes(a)
    \/ Tick

SpecSeq == Init /\ [][NextSeq]_vars

\* ------------------------------------------------------------------ SpecFail
\* storage failures: a statement of better-sqlite3 that fails throws and writes
\* nothing; every route runs inside try and its catch block answers 500

\* the routes whose first statement is a read or a delete of one row
RowRoutes == {"fetch", "increment", "delete"}

\* the response of a catch block
FailureResponse == Response(500, FALSE, 0)

\* the first statement of a request throws
FirstStatementThrows(p, route, id) ==
    /\ Begin(p, route, id)
    /\ route \in RowRoutes
    /\ loc' = [loc EXCEPT ![p] = NoLoc]
    /\ resp' = [resp EXCEPT ![p] = FailureResponse]
    /\ UNCHANGED <<notes, now, pc, used, gone, succ, purged, keyVars>>

\* a later statement of a running request throws: the UPDATE, the second
\* getNote or the deleteNote of the increment route, the deleteNote of GET
LaterStatementThrows(p) ==
    /\ pc[p] # "idle"
    /\ pc' = [pc EXCEPT ![p] = "idle"]
    /\ resp' = [resp EXCEPT ![p] = FailureResponse]
    /\ UNCHANGED <<notes, now, op, rid, loc, used, gone, succ, purged, keyVars>>

\* the payload of the notes created here; no statement reads it
FailCiphertext == encodeBase64(Bytes(17, Opaque("c1")))

NextFail ==
    \/ \E p \in Procs, id \in generateNoteId(OpenIds),
          sd \in BOOLEAN, m \in MaxReadsInputs :
             NotesPOST(p, CreateBody(id, FailCiphertext, sd, m))
    \/ \E p \in Procs, id \in OpenIds : NotesGET(p, id)
    \/ \E p \in Procs : NotesGETDelete(p)
    \/ \E p \in Procs, id \in OpenIds : NotesDELETE(p, id)
    \/ \E p \in Procs, id \in OpenIds : IncrementPOST(p, id)
    \/ \E p \in Procs : IncrementPOSTIncrement(p)
    \/ \E p \in Procs : IncrementPOSTCheck(p)
    \/ \E p \in Procs : IncrementPOSTDelete(p)
    \/ \E p \in Procs, route \in RowRoutes, id \in OpenIds :
          FirstStatementThrows(p, route, id)
    \/ \E p \in Procs : LaterStatementThrows(p)

SpecFail == Init /\ [][NextFail]_vars

\* ------------------------------------------------------------------ SpecBurst
\* K = |AllProcs| concurrent increment requests, one per slot, against one
\* stored note with a read limit N < K; nothing else runs

BurstId == "n1"

BurstLimits == {n \in 1 .. MaxMaxReads : n < Cardinality(AllProcs)}

InitBurst ==
    /\ now = 0
    /\ \E n \in BurstLimits, sd \in BOOLEAN :
          notes = [i \in {BurstId} |->
                      createNoteRow(CreateBody(BurstId, CHOOSE c \in Ciphertexts : TRUE,
                                               sd, JNumber(n)))]
    /\ pc = [p \in AllProcs |-> "idle"]
    /\ op = [p \in AllProcs |-> "none"]
    /\ rid = [p \in AllProcs |-> BurstId]
    /\ loc = [p \in AllProcs |-> NoLoc]
    /\ resp = [p \in AllProcs |-> Null]
    /\ used = {BurstId}
    /\ gone = [i \in NoteIds |-> NotGone]
    /\ succ = [i \in NoteIds |-> 0]
    /\ purged = Null
    /\ InitKeys

NextBurst ==
    \/ \E p \in AllProcs : op[p] = "none" /\ IncrementPOST(p, BurstId)
    \/ \E p \in AllProcs : IncrementPOSTIncrement(p)
    \/ \E p \in AllProcs : IncrementPOSTCheck(p)
    \/ \E p \in AllProcs : IncrementPOSTDelete(p)

SpecBurst == InitBurst /\ [][NextBurst]_vars

\* ------------------------------------------------------------------ SpecReuse
\* the create route as it is exposed: any client may POST any body, with an id
\* that is stored or was stored before and with any JSON value as maxReads.
\* Creates, fetches and DELETEs only: no read is counted, time stands still
\* and the cleanup task does not run.

\* the body without field f
Without(body, f) == [k \in DOMAIN body \ {f} |-> body[k]]

\* JSON values a client may send as maxReads: those of MaxReadsInputs, a
\* string, a negative number, and the numbers 1/2, 1 + 1/2 and 1000 + 1/2
AnyMaxReadsInputs ==
    MaxReadsInputs \cup
    {JString, JNumber(-1), JNumberAndHalf(0), JNumberAndHalf(1),
     JNumberAndHalf(MaxReadsCap)}

\* the bodies clients send to POST /api/notes
AnyCreateBodies ==
    LET full == {CreateBody(id, c, sd, m) :
                    id \in OpenIds, c \in Ciphertexts, sd \in BOOLEAN,
                    m \in AnyMaxReadsInputs}
        some == CreateBody("n1", CHOOSE c \in Ciphertexts : TRUE, FALSE, JNumber(1))
    IN  full \cup {Without(some, f) : f \in RequiredFields \cup {"selfDestruct", "maxReads"}}
             \cup {[some EXCEPT !.recipientAddress = "not an address"],
                   [some EXCEPT !.ciphertext = LargeCiphertext]}

NextReuse ==
    \/ \E p \in Procs, body \in AnyCreateBodies : NotesPOST(p, body)
    \/ \E p \in Procs, id \in OpenIds : NotesGET(p, id)
    \/ \E p \in Procs, id \in OpenIds : NotesDELETE(p, id)

SpecReuse == Init /\ [][NextReuse]_vars

\* ------------------------------------------------------------------ key directory

\* SELECT * FROM registered_keys WHERE walletAddress = ?: the row, or null
getRegisteredKey(walletAddress) ==
    IF \E r \in registered_keys : r.walletAddress = walletAddress
    THEN CHOOSE r \in registered_keys : r.walletAddress = walletAddress
    ELSE Null

\* mutant of registerKeyRows: INSERT OR IGNORE, the first key stays
registerKeyRows_KeepsFirst(key) ==
    IF \E r \in registered_keys : r.walletAddress = key.walletAddress
    THEN registered_keys
    ELSE registered_keys \cup
            {[walletAddress |-> key.walletAddress,
              encryptionPublicKey |-> key.encryptionPublicKey,
              registeredAt |-> now]}

\* INSERT OR REPLACE INTO registered_keys (walletAddress is the PRIMARY KEY):
\* the table after registerKey's statement
registerKeyRows(key) ==
    {r \in registered_keys : r.walletAddress # key.walletAddress} \cup
        {[walletAddress |-> key.walletAddress,
          encryptionPublicKey |-> key.encryptionPublicKey,
          registeredAt |-> now]}

\* the value is a JSON string
IsString(x) == "b64" \in DOMAIN x

\* Buffer.from(s, 'base64'): characters outside the alphabet are skipped
BufferFromBase64(s) == s.b64

\* mutant of InvalidEncryptionPublicKey: the length is not checked
InvalidEncryptionPublicKey_AnyLength(encryptionPublicKey) ==
    ~IsString(encryptionPublicKey)

\* register route, lines 28-40: Buffer.from throws on a value that is not a
\* string, and the decoded length must be 32
InvalidEncryptionPublicKey(encryptionPublicKey) ==
    \/ ~IsString(encryptionPublicKey)
    \/ BufferFromBase64(encryptionPublicKey).len # 32

\* register route, lines 10-40: the route answers 400
RegisterRejects(body) ==
    \/ ~({"walletAddress", "encryptionPublicKey"} \subseteq DOMAIN body)
    \/ ~ValidAddress(body.walletAddress)
    \/ InvalidEncryptionPublicKey(body.encryptionPublicKey)

\* a request to a key route and its response
KeyResponse(route, request, status, key) ==
    [route |-> route, request |-> request, status |-> status, key |-> key]

\* POST /api/keys/register (one statement: INSERT OR REPLACE)
KeysRegisterPOST(p, body) ==
    /\ IF RegisterRejects(body)
       THEN /\ kresp' = [kresp EXCEPT ![p] = KeyResponse("register", body, 400, Null)]
            /\ UNCHANGED <<registered_keys, lastRegistered>>
       ELSE /\ registered_keys' = registerKeyRows(body)
            /\ lastRegistered' =
                  [lastRegistered EXCEPT ![body.walletAddress] = body.encryptionPublicKey]
            /\ kresp' = [kresp EXCEPT ![p] = KeyResponse("register", body, 200, Null)]
    /\ UNCHANGED <<noteVars, cryptoVars, flowVars>>

\* GET /api/keys/[address] (one statement: SELECT)
KeysGET(p, address) ==
    /\ LET key == getRegisteredKey(address)
           request == [address |-> address]
       IN  kresp' = [kresp EXCEPT ![p] =
                IF ~ValidAddress(address) THEN KeyResponse("lookup", request, 400, Null)
                ELSE IF key = Null THEN KeyResponse("lookup", request, 404, Null)
                ELSE KeyResponse("lookup", request, 200, key.encryptionPublicKey)]
    /\ UNCHANGED <<registered_keys, lastRegistered, noteVars, cryptoVars, flowVars>>

\* ------------------------------------------------------------------ SpecKeys
\* the key routes as they are exposed: any client may register any key for
\* any address and look any address up; time stands still

\* the values clients send as encryptionPublicKey: derived public keys, keys
\* of 31 and 33 bytes, a 32-byte key with a line break in its base64, a number
PublicKeyInputs ==
    {deriveEncryptionKeyFromSignature(w, w).publicKey : w \in Addresses} \cup
    {encodeBase64(Bytes(31, Opaque("k"))), encodeBase64(Bytes(33, Opaque("k"))),
     [b64 |-> Bytes(32, Opaque("k")), junk |-> TRUE],
     [number |-> 7]}

\* the strings clients send as an address
AddressInputs == Addresses \cup {"not an address"}

\* the bodies clients send to POST /api/keys/register
RegisterBodies ==
    {[walletAddress |-> a, encryptionPublicKey |-> k] :
        a \in AddressInputs, k \in PublicKeyInputs}
    \cup {[walletAddress |-> "w1"],
          [encryptionPublicKey |-> deriveEncryptionKeyFromSignature("w1", "w1").publicKey]}

NextKeys ==
    \/ \E p \in Procs, body \in RegisterBodies : KeysRegisterPOST(p, body)
    \/ \E p \in Procs, a \in AddressInputs : KeysGET(p, a)

SpecKeys == Init /\ [][NextKeys]_vars

\* ------------------------------------------------------------------ pages
\* the client code: the sender page (page.tsx), the keys page (keys/page.tsx)
\* and the page that shows a note (ViewNotePage).  A page action runs the
\* client code up to the next fetch() and puts the request on the wire; the
\* route handler then runs as a request of that client.

\* the browser of the holder of each wallet, and the browser of the sender
ClientOf == [w \in Addresses |-> IF w = "w1" THEN "p1" ELSE "p2"]
Sender == "p3"

\* a request: its route, the parameter in its URL, its JSON body
Request(route, param, body) == [route |-> route, param |-> param, body |-> body]

\* the answer to the request client p has sent, Null while there is none
AnswerTo(p) ==
    IF wire[p] = Null THEN Null
    ELSE IF wire[p].route \in {"register", "lookup"} THEN kresp[p]
    ELSE resp[p]

\* client p has sent a request to the route and the handler has not started
Pending(p, route) ==
    /\ wire[p] # Null
    /\ wire[p].route = route
    /\ AnswerTo(p) = Null
    /\ pc[p] = "idle"

\* client p waits for no answer
Settled(p) == wire[p] = Null \/ AnswerTo(p) # Null

\* no request is on its way: the pages send their requests one at a time
Quiet == \A p \in AllProcs : Settled(p)

\* the page of client p has nothing more to send: it has not started, it has
\* stopped, or its last request is answered
Over(p) ==
    \/ flow[p].stage \in {"idle", "error", "done"}
    \/ flow[p].stage \in {"register", "create", "delete"} /\ Settled(p)
    \/ flow[p].stage = "fetch" /\ Settled(p) /\ resp[p].status # 200

\* the pages are used one after the other
NoPageOpen == \A p \in AllProcs : Over(p)

\* mutant of RegisterRequestBody: the secret key is sent
RegisterRequestBody_SendsSecretKey(walletAddress, keys) ==
    [walletAddress |-> walletAddress, encryptionPublicKey |-> keys.secretKey]

\* the body of the register request of the pages (page.tsx 65-68,
\* keys/page.tsx 38-41)
RegisterRequestBody(walletAddress, keys) ==
    [walletAddress |-> walletAddress, encryptionPublicKey |-> keys.publicKey]

\* what the wallet w gives when a page asks it to sign: its signature, or a
\* rejection (the user denies or cancels, the wallet fails)
WalletOutcomes(w, challenge) ==
    {signMessage(w, challenge), Thrown("User rejected the request")}

\* the signature of wallet w under the challenge of its own address
Signed(w) == signMessage(w, Challenge(w))

\* handleRegisterKey / deriveKey: the holder of wallet w derives the keypair
\* and registers its public key for the wallet's address; signed is what the
\* wallet answered.  A throw of the derivation is caught and nothing is sent
RegisterOwnKey(w, signed) ==
    LET p == ClientOf[w]
        keys == deriveAfterSigning(signed, w)
    IN  /\ NoPageOpen
        /\ IF IsThrown(keys)
           THEN /\ flow' = [flow EXCEPT ![p] =
                             [NoFlow EXCEPT !.stage = "error", !.signed = signed]]
                /\ UNCHANGED <<holds, wire, kresp>>
           ELSE /\ holds' = [holds EXCEPT ![w] = @ \cup {keys.secretKey}]
                /\ wire' = [wire EXCEPT ![p] =
                              Request("register", "", RegisterRequestBody(w, keys))]
                /\ kresp' = [kresp EXCEPT ![p] = Null]
                /\ flow' = [flow EXCEPT ![p] =
                             [NoFlow EXCEPT !.stage = "register", !.signed = signed]]
        /\ UNCHANGED <<registered_keys, lastRegistered, noteVars, cryptoVars>>

\* the public key of a secret key string
PublicKeyOf(secretKey) ==
    encodeBase64(nacl_box_keyPair_fromSecretKey(decodeBase64(secretKey)).publicKey)

\* the holder of wallet w sends a register request for the address a of
\* another wallet, with the public key of a keypair it holds
RegisterForAddress(w, a) ==
    LET p == ClientOf[w] IN
    /\ NoPageOpen
    /\ a # w
    /\ \E secretKey \in holds[w] :
          wire' = [wire EXCEPT ![p] =
                     Request("register", "",
                             [walletAddress |-> a,
                              encryptionPublicKey |-> PublicKeyOf(secretKey)])]
    /\ kresp' = [kresp EXCEPT ![p] = Null]
    /\ flow' = [flow EXCEPT ![p] = [NoFlow EXCEPT !.stage = "register"]]
    /\ UNCHANGED <<registered_keys, lastRegistered, holds, noteVars, cryptoVars>>

\* handleCreateNote, lines 85-112: a text and a recipient address are typed,
\* the page looks the recipient's key up
SenderLookup(text, address) ==
    LET p == Sender IN
    /\ NoPageOpen
    /\ text # ""
    /\ ValidAddress(address)
    /\ flow' = [flow EXCEPT ![p] =
                  [NoFlow EXCEPT !.stage = "lookup", !.message = text,
                                 !.recipientAddress = address]]
    /\ wire' = [wire EXCEPT ![p] = Request("lookup", address, Null)]
    /\ kresp' = [kresp EXCEPT ![p] = Null]
    /\ UNCHANGED <<registered_keys, lastRegistered, holds, noteVars, cryptoVars>>

\* the body of the create request of the sender page (page.tsx 138-144)
CreateRequestBody(noteId, payload, recipientAddress, selfDestruct, maxReads) ==
    [id |-> noteId, ciphertext |-> payload.ciphertext, nonce |-> payload.nonce,
     ephemeralPublicKey |-> payload.ephemeralPublicKey,
     recipientAddress |-> recipientAddress,
     selfDestruct |-> selfDestruct, maxReads |-> maxReads]

\* mutant of RecipientKey: the page encrypts to a key of its own
RecipientKey_Own(response) == deriveEncryptionKeyFromSignature("w2", "w2").publicKey

\* keyData.encryptionPublicKey of the lookup's answer (page.tsx 114-116)
RecipientKey(response) == response.key

\* the lookup request of the sender page is lost on its way: its fetch
\* rejects and the page's catch sets the error (page.tsx 124-128)
LookupLost ==
    /\ Pending(Sender, "lookup")
    /\ kresp' = [kresp EXCEPT ![Sender] =
                   KeyResponse("lookup", [address |-> wire[Sender].param], 0, Null)]
    /\ UNCHANGED <<registered_keys, lastRegistered, noteVars, cryptoVars, flowVars>>

\* handleCreateNote, lines 114-160: the lookup is answered; with a key the
\* page encrypts the text to it and sends the create request
SenderCreate(e, r, noteId, selfDestruct, maxReads) ==
    LET p == Sender
        payload == encryptMessage(flow[p].message, RecipientKey(kresp[p]), e, r)
    IN  /\ Quiet
        /\ flow[p].stage = "lookup"
        /\ IF kresp[p].status # 200
           THEN /\ flow' = [flow EXCEPT ![p].stage = "error"]
                /\ UNCHANGED <<wire, resp>>
           ELSE IF IsThrown(payload)
           THEN /\ flow' = [flow EXCEPT ![p].stage = "error"]
                /\ UNCHANGED <<wire, resp>>
           ELSE /\ flow' = [flow EXCEPT ![p].stage = "create"]
                /\ wire' = [wire EXCEPT ![p] =
                      Request("create", "",
                              CreateRequestBody(noteId, payload,
                                                flow[p].recipientAddress,
                                                selfDestruct, maxReads))]
                /\ resp' = [resp EXCEPT ![p] = Null]
        /\ UNCHANGED <<notes, now, pc, op, rid, loc, used, gone, succ, purged,
                       dirVars, holds, cryptoVars>>

\* fetchNote: the page of note id is opened in the browser of wallet w
ViewerFetch(w, id) ==
    LET p == ClientOf[w] IN
    /\ NoPageOpen
    /\ flow' = [flow EXCEPT ![p] = [NoFlow EXCEPT !.stage = "fetch"]]
    /\ wire' = [wire EXCEPT ![p] = Request("fetch", id, Null)]
    /\ resp' = [resp EXCEPT ![p] = Null]
    /\ UNCHANGED <<notes, now, pc, op, rid, loc, used, gone, succ, purged,
                   dirVars, holds, cryptoVars>>

\* mutant of WalletMatches: the page does not compare the addresses
WalletMatches_Any(w, note) == TRUE

\* publicKey.toBase58() === note.recipientAddress (ViewNotePage, line 123)
WalletMatches(w, note) == w = note.recipientAddress

\* handleDecrypt up to the increment request: the wallet check, the key
\* derivation, decryptMessage; signed is what the wallet answered.  A throw of
\* the derivation or of decryptMessage is caught and nothing is sent
ViewerDecrypt(w, signed) ==
    LET p == ClientOf[w]
        note == loc[p].note
        keys == deriveAfterSigning(signed, w)
        text == decryptMessage(note.ciphertext, note.nonce,
                               note.ephemeralPublicKey, keys.secretKey)
    IN  /\ Quiet
        /\ flow[p].stage = "fetch"
        /\ resp[p].status = 200
        /\ IF ~WalletMatches(w, note)
           THEN /\ flow' = [flow EXCEPT ![p].stage = "error", ![p].note = note]
                /\ UNCHANGED <<wire, resp, holds>>
           ELSE IF IsThrown(keys)
           THEN /\ flow' = [flow EXCEPT ![p].stage = "error", ![p].note = note,
                                        ![p].signed = signed]
                /\ UNCHANGED <<wire, resp, holds>>
           ELSE /\ holds' = [holds EXCEPT ![w] = @ \cup {keys.secretKey}]
                /\ IF IsThrown(text)
                   THEN /\ flow' = [flow EXCEPT ![p].stage = "error", ![p].note = note,
                                                ![p].signed = signed]
                        /\ UNCHANGED <<wire, resp>>
                   ELSE /\ flow' = [flow EXCEPT ![p].stage = "increment",
                                                ![p].note = note, ![p].shown = text,
                                                ![p].signed = signed]
                        /\ wire' = [wire EXCEPT ![p] = Request("increment", note.id, Null)]
                        /\ resp' = [resp EXCEPT ![p] = Null]
        /\ UNCHANGED <<notes, now, pc, op, rid, loc, used, gone, succ, purged,
                       dirVars, cryptoVars>>

\* mutant of ClientDeletes: the page sends no DELETE
ClientDeletes_Never(note) == FALSE

\* mutant of ClientDeletes: the page deletes every note it has decrypted
ClientDeletes_Always(note) == TRUE

\* note.selfDestruct && note.maxReads === null (ViewNotePage, line 164)
ClientDeletes(note) == note.selfDestruct /\ note.maxReads = NullReads

\* handleDecrypt after the increment request: the DELETE of a note with
\* selfDestruct and without maxReads
ViewerDelete(w) ==
    LET p == ClientOf[w] IN
    /\ Quiet
    /\ flow[p].stage = "increment"
    /\ IF ClientDeletes(flow[p].note)
       THEN /\ flow' = [flow EXCEPT ![p].stage = "delete"]
            /\ wire' = [wire EXCEPT ![p] = Request("delete", flow[p].note.id, Null)]
            /\ resp' = [resp EXCEPT ![p] = Null]
       ELSE /\ flow' = [flow EXCEPT ![p].stage = "done"]
            /\ UNCHANGED <<wire, resp>>
    /\ UNCHANGED <<notes, now, pc, op, rid, loc, used, gone, succ, purged,
                   dirVars, holds, cryptoVars>>

\* ------------------------------------------------------------------ SpecFlow
\* the pages and the routes together: the holders of two wallets register
\* keys (their own, and for the other address through the route), a sender
\* sends notes, the holders open them.  The pages are used one after the
\* other and one request is on its way at a time, so no fetch finds a note
\* that an increment request has yet to delete.

\* the texts the sender of SpecFlow types
FlowMessages == {"m"}

\* the maxReads values the sender page of SpecFlow sends
FlowMaxReads == {JNull, JNumber(1)}

NextFlow ==
    \/ \E w \in Addresses : RegisterOwnKey(w, Signed(w))
    \/ \E w \in Addresses, a \in Addresses : RegisterForAddress(w, a)
    \/ \E text \in FlowMessages, a \in Addresses : SenderLookup(text, a)
    \/ \E e \in Randoms, id \in generateNoteId(OpenIds),
          sd \in BOOLEAN, m \in FlowMaxReads :
             SenderCreate(e, CHOOSE r \in Randoms : r # e, id, sd, m)
    \/ \E w \in Addresses, id \in OpenIds : ViewerFetch(w, id)
    \/ \E w \in Addresses : ViewerDecrypt(w, Signed(w))
    \/ \E w \in Addresses : ViewerDelete(w)
    \/ \E p \in AllProcs : Pending(p, "register") /\ KeysRegisterPOST(p, wire[p].body)
    \/ \E p \in AllProcs : Pending(p, "lookup") /\ KeysGET(p, wire[p].param)
    \/ \E p \in AllProcs : Pending(p, "create") /\ NotesPOST(p, wire[p].body)
    \/ \E p \in AllProcs : Pending(p, "fetch") /\ NotesGET(p, wire[p].param)
    \/ \E p \in AllProcs : Pending(p, "delete") /\ NotesDELETE(p, wire[p].param)
    \/ \E p \in AllProcs : Pending(p, "increment") /\ IncrementPOST(p, wire[p].param)
    \/ \E p \in AllProcs : IncrementPOSTIncrement(p)
    \/ \E p \in AllProcs : IncrementPOSTCheck(p)
    \/ \E p \in AllProcs : IncrementPOSTDelete(p)

SpecFlow == Init /\ [][NextFlow]_vars

\* ------------------------------------------------------------------ SpecDir
\* the create route and the register route as they are exposed: any client
\* posts a create request for any recipient, any client registers a key

\* the client that sends the create requests, and the one that registers
Creator == "p1"
Registrar == "p2"

\* the maxReads values of the create requests: none, one the route refuses,
\* one it takes
DirMaxReads == {JNull, JNumber(0), JNumber(MaxMaxReads)}

\* the create requests sent: a new id, any recipient
DirBodies ==
    {[CreateBody(id, FailCiphertext, TRUE, m) EXCEPT !.recipientAddress = a] :
        id \in generateNoteId(NoteIds), a \in AddressInputs, m \in DirMaxReads}

\* the register requests sent: each wallet's own key
DirKeys ==
    {[walletAddress |-> w,
      encryptionPublicKey |-> deriveEncryptionKeyFromSignature(w, w).publicKey] :
        w \in Addresses}

\* client p sends a create request
PostCreate(p, body) ==
    /\ Settled(p)
    /\ pc[p] = "idle"
    /\ wire' = [wire EXCEPT ![p] = Request("create", "", body)]
    /\ resp' = [resp EXCEPT ![p] = Null]
    /\ UNCHANGED <<notes, now, pc, op, rid, loc, used, gone, succ, purged,
                   dirVars, holds, flow, cryptoVars>>

NextDir ==
    \/ \E body \in DirBodies : PostCreate(Creator, body)
    \/ Pending(Creator, "create") /\ NotesPOST(Creator, wire[Creator].body)
    \/ \E body \in DirKeys : KeysRegisterPOST(Registrar, body)

SpecDir == Init /\ [][NextDir]_vars

\* ------------------------------------------------------------------ SpecFrame
\* two notes and the key directory side by side: one client sends note
\* requests one after the other, the cleanup task runs, and keys are
\* registered and registered again

\* the maxReads values of the notes created here
FrameMaxReads == {JNull, JNumber(1)}

\* the register requests: the key of w1 for w1, then another key for w1
FrameKeys ==
    {[walletAddress |-> "w1",
      encryptionPublicKey |-> deriveEncryptionKeyFromSignature(w, w).publicKey] :
        w \in Addresses}

NextFrame ==
    \/ \E id \in generateNoteId(NoteIds), m \in FrameMaxReads :
          NotesPOST(Creator, CreateBody(id, FailCiphertext, TRUE, m))
    \/ \E id \in NoteIds : NotesGET(Creator, id)
    \/ \E id \in NoteIds : NotesDELETE(Creator, id)
    \/ \E id \in NoteIds : IncrementPOST(Creator, id)
    \/ IncrementPOSTIncrement(Creator)
    \/ IncrementPOSTCheck(Creator)
    \/ IncrementPOSTDelete(Creator)
    \/ pc[Creator] = "idle" /\ DeleteOldNotes(0)
    \/ Tick
    \/ \E body \in FrameKeys : KeysRegisterPOST(Registrar, body)

SpecFrame == Init /\ [][NextFrame]_vars

\* ------------------------------------------------------------------ SpecView
\* the recipient's side: a note of the sender page is stored for w1, whose
\* key is registered; the holders of the wallets open the note's page and
\* the cleanup task runs.  The pages are used one after the other, as in
\* SpecFlow.

\* the id of the stored note
ViewId == "n1"

\* the limits the stored note may have
ViewMaxReads == {JNull} \cup {JNumber(n) : n \in 1 .. MaxMaxReads}

\* the create request the sender page sent for the stored note: addressed to
\* w1 and encrypted to the key the lookup for w1 returned at that time, the
\* key derived by the wallet `owner`
ViewBody(owner, selfDestruct, maxReads) ==
    CreateRequestBody(ViewId,
        encryptMessage("m", deriveEncryptionKeyFromSignature(owner, owner).publicKey,
                       "r1", "r2"),
        "w1", selfDestruct, maxReads)

InitView ==
    /\ now = 0
    /\ \E owner \in Addresses, sd \in BOOLEAN, m \in ViewMaxReads :
          notes = [i \in {ViewId} |-> createNoteRow(ViewBody(owner, sd, m))]
    /\ pc = [p \in AllProcs |-> "idle"]
    /\ op = [p \in AllProcs |-> "none"]
    /\ rid = [p \in AllProcs |-> ViewId]
    /\ loc = [p \in AllProcs |-> NoLoc]
    /\ resp = [p \in AllProcs |-> Null]
    /\ used = {ViewId}
    /\ gone = [i \in NoteIds |-> NotGone]
    /\ succ = [i \in NoteIds |-> 0]
    /\ purged = Null
    /\ registered_keys =
          {[walletAddress |-> "w1",
            encryptionPublicKey |-> deriveEncryptionKeyFromSignature("w1", "w1").publicKey,
            registeredAt |-> 0]}
    /\ kresp = [p \in AllProcs |-> Null]
    /\ lastRegistered =
          [a \in Addresses |->
              IF a = "w1" THEN deriveEncryptionKeyFromSignature("w1", "w1").publicKey
              ELSE Null]
    /\ NoCrypto
    /\ holds = [w \in Addresses |->
                  IF w = "w1" THEN {deriveEncryptionKeyFromSignature("w1", "w1").secretKey}
                  ELSE {}]
    /\ flow = [p \in AllProcs |-> NoFlow]
    /\ wire = [p \in AllProcs |-> Null]

\* the note route handlers at work on the request of client p
ServesView(p) ==
    \/ Pending(p, "fetch") /\ NotesGET(p, wire[p].param)
    \/ Pending(p, "delete") /\ NotesDELETE(p, wire[p].param)
    \/ Pending(p, "increment") /\ IncrementPOST(p, wire[p].param)
    \/ IncrementPOSTIncrement(p)
    \/ IncrementPOSTCheck(p)
    \/ IncrementPOSTDelete(p)

NextView ==
    \/ \E w \in Addresses : ViewerFetch(w, ViewId)
    \/ \E w \in Addresses : ViewerDecrypt(w, Signed(w))
    \/ \E w \in Addresses : ViewerDelete(w)
    \/ \E p \in AllProcs : ServesView(p)
    \/ \E a \in 0 .. MaxTime : DeleteOldNotes(a)
    \/ Tick

SpecView == InitView /\ [][NextView]_vars

\* every request sent is served and the page goes on after each answer
FairView ==
    /\ \A p \in AllProcs : WF_vars(ServesView(p))
    /\ \A w \in Addresses : WF_vars(ViewerDelete(w))

SpecViewFair == SpecView /\ FairView

\* ------------------------------------------------------------------ SpecSign
\* the pages that ask the wallet to sign, the wallet signing or rejecting:
\* the holders of the wallets register their keys and open the stored note

NextSign ==
    \/ \E w \in Addresses : \E signed \in WalletOutcomes(w, Challenge(w)) :
          RegisterOwnKey(w, signed)
    \/ \E w \in Addresses : ViewerFetch(w, ViewId)
    \/ \E w \in Addresses : \E signed \in WalletOutcomes(w, Challenge(w)) :
          ViewerDecrypt(w, signed)
    \/ \E w \in Addresses : ViewerDelete(w)
    \/ \E p \in AllProcs : Pending(p, "register") /\ KeysRegisterPOST(p, wire[p].body)
    \/ \E p \in AllProcs : ServesView(p)

SpecSign == InitView /\ [][NextSign]_vars

\* ------------------------------------------------------------------ SpecLost
\* the page of the stored note when its requests can fail: a request of the
\* page does not reach the server (fetch rejects), or a statement of the
\* handler throws and the answer is 500

\* what the page has of a request whose fetch rejected: no response
NoResponse == Response(0, FALSE, 0)

\* the request client p has sent is lost on its way: its fetch rejects, the
\* page's catch logs the error and the handler never runs
RequestLost(p) ==
    /\ wire[p] # Null
    /\ wire[p].route \in RowRoutes
    /\ AnswerTo(p) = Null
    /\ pc[p] = "idle"
    /\ resp' = [resp EXCEPT ![p] = NoResponse]
    /\ UNCHANGED <<notes, now, pc, op, rid, loc, used, gone, succ, purged,
                   keyVars>>

NextLost ==
    \/ \E w \in Addresses : ViewerFetch(w, ViewId)
    \/ \E w \in Addresses : ViewerDecrypt(w, Signed(w))
    \/ \E w \in Addresses : ViewerDelete(w)
    \/ \E p \in AllProcs : ServesView(p)
    \/ \E p \in AllProcs : NotesGETDelete(p)
    \/ \E p \in AllProcs : RequestLost(p)
    \/ \E p \in AllProcs : LaterStatementThrows(p)

SpecLost == InitView /\ [][NextLost]_vars

\* ------------------------------------------------------------------ SpecCrypto
\* encryptMessage and decryptMessage as functions: any text, any two
\* keypairs; the text is encrypted to the public key of keypair[1] and the
\* payload is decrypted with the secret key of either keypair

InitCrypto ==
    /\ InitNotes
    /\ InitDirectory
    /\ InitFlow
    /\ message \in Messages
    /\ keypair \in [1 .. 2 -> Keypairs]
    /\ encrypted = Null
    /\ decrypted = Null
    /\ derived = [i \in 1 .. 2 |-> Null]

\* encryptMessage(message, keypair[1].publicKey)
Encrypt(e, r) ==
    /\ encrypted' = encryptMessage(message, keypair[1].publicKey, e, r)
    /\ decrypted' = Null
    /\ UNCHANGED <<message, keypair, derived, noteVars, dirVars, flowVars>>

\* decryptMessage(ciphertext, nonce, ephemeralPublicKey, keypair[k].secretKey)
Decrypt(k) ==
    /\ encrypted # Null
    /\ ~IsThrown(encrypted)
    /\ decrypted' =
          [key |-> k,
           result |-> decryptMessage(encrypted.ciphertext, encrypted.nonce,
                                     encrypted.ephemeralPublicKey,
                                     keypair[k].secretKey)]
    /\ UNCHANGED <<message, keypair, encrypted, derived, noteVars, dirVars, flowVars>>

NextCrypto ==
    \/ \E e \in Randoms, r \in Randoms : Encrypt(e, r)
    \/ \E k \in 1 .. 2 : Decrypt(k)

SpecCrypto == InitCrypto /\ [][NextCrypto]_vars

\* ------------------------------------------------------------------ SpecFresh
\* successive calls of encryptMessage on one random source, and the create
\* requests that carry their payloads.  The source (nacl.randomBytes, which
\* nacl.box.keyPair draws from too) gives a value it has not given before:
\* its outputs are numbered in the order of the draws.  encrypted is the
\* sequence of the payloads returned so far.

\* the number of encryptMessage calls followed
MaxCalls == 2

\* the d-th output of the random source
Draw(d) == "d" \o ToString(d)

\* the draws of the n-th call: its ephemeral keypair, then its nonce
DrawsOfCall(n) == [keyPair |-> Draw(2 * n - 1), nonce |-> Draw(2 * n)]

InitFresh ==
    /\ InitNotes
    /\ InitDirectory
    /\ InitFlow
    /\ message = ""
    /\ keypair \in [1 .. 2 -> Keypairs]
    /\ encrypted = << >>
    /\ decrypted = Null
    /\ derived = [i \in 1 .. 2 |-> Null]

\* the next call: encryptMessage(text, keypair[k].publicKey)
EncryptNext(text, k) ==
    LET n == Len(encrypted) + 1 IN
    /\ n <= MaxCalls
    /\ message' = text
    /\ encrypted' = Append(encrypted,
                           encryptMessage(text, keypair[k].publicKey,
                                          DrawsOfCall(n).keyPair, DrawsOfCall(n).nonce))
    /\ UNCHANGED <<keypair, decrypted, derived, noteVars, dirVars, flowVars>>

\* the sender page sends the payload of the n-th call in a create request
SendPayload(n, noteId) ==
    /\ n \in DOMAIN encrypted
    /\ ~IsThrown(encrypted[n])
    /\ NotesPOST(Sender, CreateRequestBody(noteId, encrypted[n], "w1", TRUE, JNull))

NextFresh ==
    \/ \E text \in Messages, k \in 1 .. 2 : EncryptNext(text, k)
    \/ \E n \in 1 .. MaxCalls, noteId \in generateNoteId(NoteIds) :
          SendPayload(n, noteId)

SpecFresh == InitFresh /\ [][NextFresh]_vars

\* ------------------------------------------------------------------ SpecSend
\* encryptMessage on any key string, and the sender page on a key directory
\* any client has written to through the register route

\* the strings encryptMessage is given as recipientPublicKey, and the strings
\* clients register: a derived public key, keys of 31 and 33 bytes, a
\* 32-byte key with a line break in its base64
SendKeys ==
    {deriveEncryptionKeyFromSignature("w1", "w1").publicKey,
     encodeBase64(Bytes(31, Opaque("k"))), encodeBase64(Bytes(33, Opaque("k"))),
     [b64 |-> Bytes(32, Opaque("k")), junk |-> TRUE]}

\* keypair[1].publicKey is the string given to encryptMessage
InitSend ==
    /\ InitNotes
    /\ InitDirectory
    /\ InitFlow
    /\ message \in FlowMessages
    /\ \E key \in SendKeys :
          keypair = [k \in 1 .. 2 |->
                        [publicKey |-> key,
                         secretKey |-> deriveEncryptionKeyFromSignature("w1", "w1").secretKey]]
    /\ encrypted = Null
    /\ decrypted = Null
    /\ derived = [i \in 1 .. 2 |-> Null]

NextSend ==
    \/ \E e \in Randoms, r \in Randoms : Encrypt(e, r)
    \/ \E a \in Addresses, key \in SendKeys :
          KeysRegisterPOST("p1", [walletAddress |-> a, encryptionPublicKey |-> key])
    \/ \E text \in FlowMessages, a \in Addresses : SenderLookup(text, a)
    \/ \E e \in Randoms, id \in generateNoteId(OpenIds),
          sd \in BOOLEAN, m \in FlowMaxReads :
             SenderCreate(e, CHOOSE r \in Randoms : r # e, id, sd, m)
    \/ \E p \in AllProcs : Pending(p, "lookup") /\ KeysGET(p, wire[p].param)
    \/ \E p \in AllProcs : Pending(p, "create") /\ NotesPOST(p, wire[p].body)
    \/ LookupLost

SpecSend == InitSend /\ [][NextSend]_vars

\* ------------------------------------------------------------------ SpecTamper
\* decryptMessage on a payload of encryptMessage in which one field was
\* changed on its way

\* the ways one field is changed: one bit of its bytes other than the top
\* bit of the last byte, the top bit of the last byte, or a character of the
\* string replaced by one outside the base64 alphabet
Changes == {"bit", "top", "junk"}

\* the fields of a payload
PayloadFields == {"ciphertext", "nonce", "ephemeralPublicKey"}

\* the bytes with one bit flipped.  X25519 reads a public key as a 255-bit
\* number: a public key with the top bit of its last byte flipped is other
\* bytes that denote the same point
FlipBit(bytes, how) ==
    IF how = "top" /\ bytes.len = 32 /\ DOMAIN bytes.v = {"pk"}
    THEN Bytes(32, [pk |-> bytes.v.pk, top |-> TRUE])
    ELSE Bytes(bytes.len, [flipped |-> bytes.v, bit |-> how])

\* the payload with one field changed
Tampered(payload, field, how) ==
    [payload EXCEPT ![field] =
        IF how = "junk" THEN [@ EXCEPT !.junk = TRUE]
        ELSE encodeBase64(FlipBit(decodeBase64(@), how))]

\* decryptMessage on the changed payload with keypair[k].secretKey
TamperedDecrypt(k, field, how) ==
    /\ encrypted # Null
    /\ ~IsThrown(encrypted)
    /\ LET payload == Tampered(encrypted, field, how)
       IN  decrypted' =
              [key |-> k, field |-> field, how |-> how,
               result |-> decryptMessage(payload.ciphertext, payload.nonce,
                                         payload.ephemeralPublicKey,
                                         keypair[k].secretKey)]
    /\ UNCHANGED <<message, keypair, encrypted, derived, noteVars, dirVars, flowVars>>

NextTamper ==
    \/ \E e \in Randoms, r \in Randoms : Encrypt(e, r)
    \/ \E k \in 1 .. 2, field \in PayloadFields, how \in Changes :
          TamperedDecrypt(k, field, how)

SpecTamper == InitCrypto /\ [][NextTamper]_vars

\* ------------------------------------------------------------------ SpecOpen
\* decryptMessage on any payload that opens: one made by encryptMessage, or
\* one another client made with nacl.box from bytes that are not the UTF-8
\* encoding of a text (the create route stores any ciphertext string)

\* a box of bytes that are no UTF-8 text, made for the public key
RawPayload(publicKey) ==
    [ciphertext |-> encodeBase64(nacl_box(Bytes(2, Opaque("raw")),
                                          nacl_randomBytes(24, "r2"),
                                          decodeBase64(publicKey),
                                          nacl_box_keyPair("r1").secretKey)),
     nonce |-> encodeBase64(nacl_randomBytes(24, "r2")),
     ephemeralPublicKey |-> encodeBase64(nacl_box_keyPair("r1").publicKey)]

\* what the catch block of decryptMessage has caught (line 94), Null when
\* nothing was thrown; the Error it throws has the message
\* "Decryption failed: " followed by this
decryptMessageCaught(ciphertext, nonce, ephemeralPublicKey, recipientSecretKey) ==
    LET ciphertextBytes == decodeBase64(ciphertext)
        nonceBytes == decodeBase64(nonce)
        ephemeralPubKeyBytes == decodeBase64(ephemeralPublicKey)
        recipientSecretKeyBytes == decodeBase64(recipientSecretKey)
    IN  IF \/ IsThrown(ciphertextBytes) \/ IsThrown(nonceBytes)
           \/ IsThrown(ephemeralPubKeyBytes) \/ IsThrown(recipientSecretKeyBytes)
        THEN "TypeError: invalid encoding"
        ELSE LET opened == nacl_box_open(ciphertextBytes, nonceBytes,
                                         ephemeralPubKeyBytes, recipientSecretKeyBytes)
             IN  IF opened = Null
                 THEN "Error: Decryption failed - invalid key or corrupted data"
                 ELSE IF IsThrown(opened) THEN "Error: bad size"
                 ELSE IF IsThrown(encodeUTF8(opened)) THEN "URIError: URI malformed"
                 ELSE "nothing"

InitOpen ==
    /\ InitNotes
    /\ InitDirectory
    /\ InitFlow
    /\ message \in Messages
    /\ keypair \in [1 .. 2 -> Keypairs]
    /\ encrypted \in {encryptMessage(message, keypair[1].publicKey, "r1", "r2"),
                      RawPayload(keypair[1].publicKey)}
    /\ decrypted = Null
    /\ derived = [i \in 1 .. 2 |-> Null]

NextOpen ==
    \/ \E k \in 1 .. 2 : Decrypt(k)
    \/ \E k \in 1 .. 2, field \in PayloadFields, how \in Changes :
          TamperedDecrypt(k, field, how)

SpecOpen == InitOpen /\ [][NextOpen]_vars

\* ------------------------------------------------------------------ SpecDerive
\* deriveEncryptionKeyFromSignature as a function of the address and of the
\* signMessage it is given: two runs, any address, any signing capability

\* what signMessage of wallet w may give for a message: the Ed25519
\* signature, a signature made with a random draw, a signature that does not
\* depend on the message, or a rejection (the user denies or cancels)
SignOutcomes(w, challenge) ==
    {signMessage(w, challenge), Bytes(64, Opaque("sig")),
     Thrown("User rejected the request")}
        \cup {Bytes(64, [signer |-> w, signed |-> challenge.v, random |-> r]) :
                 r \in Randoms}

\* run i of deriveEncryptionKeyFromSignature(signMessage, walletAddress)
Derive(i, walletAddress, signed) ==
    /\ derived' = [derived EXCEPT ![i] =
                     [walletAddress |-> walletAddress, signed |-> signed,
                      result |-> deriveAfterSigning(signed, walletAddress)]]
    /\ UNCHANGED <<message, keypair, encrypted, decrypted,
                   noteVars, dirVars, flowVars>>

NextDerive ==
    \E i \in 1 .. 2, w \in Addresses, a \in Addresses :
        \E signed \in SignOutcomes(w, Challenge(a)) : Derive(i, a, signed)

SpecDerive == Init /\ [][NextDerive]_vars

\* ------------------------------------------------------------------ shorthands

\* request p has been answered and p has not started another one
Finished(p, route) == op[p] = route /\ pc[p] = "idle" /\ resp[p] # Null

\* the read limit of the note of id, stored or removed
LimitOf(i) == IF i \in DOMAIN notes THEN notes[i].maxReads ELSE gone[i].limit

\* the second getNote of increment request p returned a note at or above its limit
SawExhausted(p) ==
    /\ op[p] = "increment"
    /\ loc[p].updatedNote # Null
    /\ loc[p].updatedNote.maxReads # NullReads
    /\ loc[p].updatedNote.currentReads >= loc[p].updatedNote.maxReads

\* ------------------------------------------------------------------ claims

\* C1: a stored note with a read limit never holds a currentReads above the
\* limit, in any state of any interleaving of create / fetch / increment /
\* delete / purge requests, the states between two statements of a request
\* included.
C1_ReadsWithinLimit ==
    \A i \in DOMAIN notes :
        notes[i].maxReads # NullReads => notes[i].currentReads <= notes[i].maxReads

\* every slot of the burst has been answered
BurstFinished == \A p \in AllProcs : Finished(p, "increment")

\* C2: K concurrent increment requests against a note with limit N < K: the
\* stored count never exceeds N, and once all K are answered the note is
\* absent, was removed exactly once, and was removed at count N.
C2_BurstSettlesAtLimit ==
    /\ BurstId \in DOMAIN notes =>
          notes[BurstId].currentReads <= notes[BurstId].maxReads
    /\ BurstFinished =>
          /\ BurstId \notin DOMAIN notes
          /\ gone[BurstId].n = 1
          /\ gone[BurstId].reads = gone[BurstId].limit

\* C3: two concurrent increment requests that both read the note at or above
\* its limit: at most one of their deleteNote calls removes a row, and each
\* is answered with deleted: true.
C3_OneDeleteWinsBothDestroyed ==
    \A p \in AllProcs, q \in AllProcs :
        (p # q /\ rid[p] = rid[q] /\ SawExhausted(p) /\ SawExhausted(q)) =>
            /\ ~(loc[p].deleted /\ loc[q].deleted)
            /\ Finished(p, "increment") =>
                  resp[p].status = 200 /\ resp[p].deleted

\* C3 witness: both requests answered, one delete removed the row, the other
\* found it gone
C3_Witness ==
    \E p \in AllProcs, q \in AllProcs :
        /\ p # q /\ rid[p] = rid[q]
        /\ SawExhausted(p) /\ SawExhausted(q)
        /\ Finished(p, "increment") /\ Finished(q, "increment")
        /\ loc[p].deleted /\ ~loc[q].deleted
        /\ resp[p].deleted /\ resp[q].deleted

\* C4: an increment request whose UPDATE changed no row (the note did not
\* exist then) is answered 404, never with success.
C4_NotFoundWhenNoRowUpdated ==
    \A p \in AllProcs :
        (Finished(p, "increment") /\ ~loc[p].changed) => resp[p].status = 404

\* a note was stored under id i at some time
Created(i) == i \in DOMAIN notes \/ gone[i].by # "none"

\* C5: one client, a note with limit N: the k-th increment request (k < N) is
\* answered {deleted: false, currentReads: k} and leaves the note stored,
\* below its limit and returned by fetch; the N-th is answered
\* {deleted: true, currentReads: N}; after that every fetch and every
\* increment request is answered 404.
C5_SequentialCountdown ==
    LET p == SeqProc
        i == rid[p]
    IN  (Created(i) /\ LimitOf(i) # NullReads) =>
        /\ (Finished(p, "increment") /\ resp[p].status = 200) =>
              /\ resp[p].currentReads = succ[i]
              /\ resp[p].deleted = (succ[i] = LimitOf(i))
              /\ succ[i] <= LimitOf(i)
              /\ ~resp[p].deleted =>
                    \/ gone[i].by = "purge"
                    \/ /\ i \in DOMAIN notes
                       /\ notes[i].currentReads = succ[i]
                       /\ notes[i].currentReads < notes[i].maxReads
        /\ (Finished(p, "fetch") /\ i \in DOMAIN notes) =>
              resp[p].status = 200 /\ resp[p].currentReads = notes[i].currentReads
        /\ gone[i].by = "threshold" =>
              /\ gone[i].reads = gone[i].limit
              /\ succ[i] = gone[i].limit
              /\ Finished(p, "fetch") => resp[p].status = 404
              /\ Finished(p, "increment") => resp[p].status = 404 \/ resp[p].deleted

\* C5 witness: a note with limit 2 was destroyed by its second increment and a
\* later fetch was answered 404
C5_Witness ==
    /\ gone[rid[SeqProc]].by = "threshold"
    /\ gone[rid[SeqProc]].limit = 2
    /\ succ[rid[SeqProc]] = 2
    /\ Finished(SeqProc, "fetch")
    /\ resp[SeqProc].status = 404

\* C6: one client, a note without a read limit: no increment or fetch request
\* ever deletes it, whatever selfDestruct is; each increment request is
\* answered {deleted: false} with currentReads one above the count it found;
\* the note stays stored and returned by fetch until an explicit DELETE or a
\* purge removes it, after which fetch is answered 404.
C6_NoLimitNeverDestroyed ==
    LET p == SeqProc
        i == rid[p]
    IN  (Created(i) /\ LimitOf(i) = NullReads) =>
        /\ gone[i].by \in {"none", "delete", "purge"}
        /\ gone[i].by = "none" => i \in DOMAIN notes
        /\ (Finished(p, "increment") /\ resp[p].status = 200) =>
              /\ ~resp[p].deleted
              /\ resp[p].currentReads = loc[p].note.currentReads + 1
              /\ resp[p].currentReads = succ[i]
              /\ i \in DOMAIN notes => notes[i].currentReads = resp[p].currentReads
        /\ Finished(p, "fetch") => (resp[p].status = 200 <=> loc[p].note # Null)
        /\ (Finished(p, "fetch") /\ i \in DOMAIN notes) => resp[p].status = 200
        /\ (Finished(p, "fetch") /\ resp[p].status = 404) => gone[i].by # "none"

\* C6 witness: a selfDestruct note without limit answered its third increment
\* and is still stored
C6_Witness ==
    LET p == SeqProc
        i == rid[p]
    IN  /\ i \in DOMAIN notes
        /\ notes[i].maxReads = NullReads
        /\ notes[i].selfDestruct = 1
        /\ Finished(p, "increment")
        /\ resp[p] = Response(200, FALSE, 3)

\* request p goes from idle to its answer in this step as a fetch that does
\* not find an exhausted note
FetchAnswers(p) ==
    /\ pc[p] = "idle" /\ pc'[p] = "idle"
    /\ op'[p] = "fetch"
    /\ <<op[p], rid[p], loc[p], resp[p]>> # <<op'[p], rid'[p], loc'[p], resp'[p]>>

FetchSawExhausted(p) ==
    /\ op[p] = "fetch"
    /\ loc[p].note # Null
    /\ loc[p].note.maxReads # NullReads
    /\ loc[p].note.currentReads >= loc[p].note.maxReads

\* C8: a fetch that finds a note with a limit and currentReads >= maxReads
\* never answers with the note: it answers 404 and the note is absent once
\* the answer is given.
C8_FetchHidesExhausted ==
    \A p \in AllProcs :
        /\ FetchSawExhausted(p) =>
              /\ resp[p] # Null => resp[p].status = 404
              /\ Finished(p, "fetch") => rid[p] \notin DOMAIN notes
        /\ (Finished(p, "fetch") /\ resp[p].status = 200) =>
              /\ loc[p].note # Null
              /\ loc[p].note.maxReads # NullReads =>
                    loc[p].note.currentReads < loc[p].note.maxReads

\* C8 witness: a fetch found the note exhausted (an increment request had
\* counted the last read and not yet deleted), removed the row and answered 404
C8_Witness ==
    \E p \in AllProcs :
        /\ FetchSawExhausted(p)
        /\ Finished(p, "fetch")
        /\ loc[p].deleted
        /\ resp[p].status = 404

\* C9: over the life of a note with limit N at most N increment requests are
\* answered with success, under any interleaving.
C9_AtMostLimitSuccesses ==
    \A i \in NoteIds :
        (Created(i) /\ LimitOf(i) # NullReads) => succ[i] <= LimitOf(i)

\* request p goes from idle to its answer in this step as a DELETE
DeleteAnswers(p) ==
    /\ pc[p] = "idle" /\ pc'[p] = "idle"
    /\ op'[p] = "delete"
    /\ <<op[p], rid[p], loc[p], resp[p]>> # <<op'[p], rid'[p], loc'[p], resp'[p]>>

\* the number of DELETE statements that removed the row of id i
Removals(i) == gone[i].n

\* C10: delete is idempotent: a DELETE request on a stored note removes it and
\* is answered with success; on an absent id it is answered 404 and changes
\* nothing; the note is absent after either; over all requests, concurrent
\* ones included, at most one DELETE statement removes the row of an id.
C10_DeleteIdempotent ==
    [][/\ \A i \in NoteIds : Removals(i)' <= 1
       /\ \A p \in AllProcs :
             DeleteAnswers(p) =>
                /\ rid'[p] \notin DOMAIN notes'
                /\ IF rid'[p] \in DOMAIN notes
                   THEN resp'[p].status = 200 /\ loc'[p].deleted
                   ELSE resp'[p].status = 404 /\ ~loc'[p].deleted /\ notes' = notes
      ]_vars

\* C10 witness: two DELETE requests for the same id, the first answered with
\* success, the second 404
C10_Witness ==
    \E p \in AllProcs, q \in AllProcs :
        /\ p # q /\ rid[p] = rid[q]
        /\ Finished(p, "delete") /\ Finished(q, "delete")
        /\ resp[p].status = 200 /\ resp[q].status = 404

\* this step is a run of the cleanup task: it records its call, or it changes
\* the table while no request moves
PurgeStep ==
    \/ purged' # purged
    \/ notes' # notes /\ <<pc, op, rid, loc, resp>>' = <<pc, op, rid, loc, resp>>

\* C11: deleteOldNotes(maxAge) removes exactly the rows with
\* createdAt < now - maxAge and returns their number; every row with
\* createdAt >= now - maxAge, one exactly at the cutoff included, stays with
\* all its fields as they were.
C11_PurgeRemovesExactlyExpired ==
    [][PurgeStep =>
         LET expired == {i \in DOMAIN notes :
                            notes[i].createdAt < now - purged'.maxAgeMs}
         IN  /\ DOMAIN notes' = DOMAIN notes \ expired
             /\ \A i \in DOMAIN notes' : notes'[i] = notes[i]
             /\ purged'.changes = Cardinality(expired)
      ]_vars

\* C11 witness: a purge with maxAge 0 at time 1 reported one removed row: the
\* note created at time 0 is gone, the note created exactly at the cutoff is
\* stored with the read it has counted
C11_Witness ==
    /\ now = 1
    /\ purged = [maxAgeMs |-> 0, changes |-> 1]
    /\ gone["n1"].by = "purge"
    /\ "n2" \in DOMAIN notes
    /\ notes["n2"].createdAt = now - purged.maxAgeMs
    /\ notes["n2"].currentReads = 1

\* C12: the create route rejects a present maxReads that is not an integer in
\* 1..1000 (0, negatives, values above 1000, non-numbers) and then stores
\* nothing, so every stored note has maxReads null or an integer in 1..1000;
\* a note is stored with currentReads = 0 and is not exhausted when stored.
C12_StoredMaxReadsInRange ==
    \A i \in DOMAIN notes :
        /\ notes[i].maxReads # NullReads =>
              /\ notes[i].maxReads \in 1 .. MaxReadsCap
              /\ ~notes[i].maxReadsHalf
        /\ notes[i].currentReads = 0 => ~Exhausted(notes[i])

\* C13: a create with an id that is stored fails and leaves the table as it
\* is; a create is answered with success exactly when it stores a row under
\* an id that had none, so of two creates with the same id one stores the
\* note and the other fails; no step changes the payload, recipient, limit
\* or creation time of a stored row.
C13_DuplicateCreateFails ==
    [][/\ \A p \in AllProcs :
             (pc[p] = "idle" /\ pc'[p] = "idle" /\ op'[p] = "create"
                 /\ <<op[p], rid[p], loc[p], resp[p]>> # <<op'[p], rid'[p], loc'[p], resp'[p]>>) =>
                /\ rid'[p] \in DOMAIN notes =>
                      resp'[p].status # 200 /\ notes' = notes
                /\ resp'[p].status = 200 <=>
                      (rid'[p] \notin DOMAIN notes /\ rid'[p] \in DOMAIN notes')
                /\ resp'[p].status # 200 => notes' = notes
       /\ \A i \in DOMAIN notes \cap DOMAIN notes' :
             [notes'[i] EXCEPT !.currentReads = 0] = [notes[i] EXCEPT !.currentReads = 0]
      ]_vars

\* C13 witness: two clients sent a create with the same id: one was answered
\* with success, the other with the failure of the INSERT, one row is stored
C13_Witness ==
    \E p \in AllProcs, q \in AllProcs :
        /\ p # q /\ rid[p] = rid[q]
        /\ Finished(p, "create") /\ Finished(q, "create")
        /\ resp[p].status = 200 /\ resp[q].status = 500
        /\ rid[p] \in DOMAIN notes

\* C14: Destroyed is terminal: an id whose row has been removed (by the
\* threshold, a DELETE or the cleanup) is never stored again, so every later
\* fetch and increment of it is answered 404.
C14_DestroyedIsTerminal ==
    \A i \in NoteIds : gone[i].ever => i \notin DOMAIN notes

\* C19: round trip: for every text and every valid keypair K,
\* decryptMessage(encryptMessage(M, K.publicKey), K.secretKey) returns M.
C19_RoundTrip ==
    (decrypted # Null /\ keypair[decrypted.key] = keypair[1]) =>
        decrypted.result = Returned(message)

\* C19 witness: a text that is not empty came back from the payload under
\* the recipient's secret key
C19_Witness ==
    /\ decrypted # Null
    /\ decrypted.key = 1
    /\ message # ""
    /\ decrypted.result = Returned(message)

\* C20: wrong key: for keypairs K1 and K2 with K2 different from K1,
\* decryptMessage(encryptMessage(M, K1.publicKey), K2.secretKey) throws
\* "Decryption failed" and returns no text.
C20_WrongKeyRejected ==
    (decrypted # Null /\ keypair[decrypted.key] # keypair[1]) =>
        decrypted.result = Thrown("Decryption failed")

\* C20 witness: the payload was given to decryptMessage with the secret key
\* of another keypair and the call threw
C20_Witness ==
    /\ decrypted # Null
    /\ decrypted.key = 2
    /\ keypair[2] # keypair[1]
    /\ IsThrown(decrypted.result)

\* client p gets the answer to a lookup in this step
LookupAnswers(p) == kresp'[p] # kresp[p] /\ kresp'[p].route = "lookup"

\* C17: the key directory holds at most one row per address; a register
\* overwrites the earlier row and a lookup returns the key of the most recent
\* register that was answered with success, or 404 when there was none; a
\* lookup changes no row.
C17_LastWriteWins ==
    [][/\ \A r1 \in registered_keys', r2 \in registered_keys' :
             r1.walletAddress = r2.walletAddress => r1 = r2
       /\ \A a \in Addresses :
             IF lastRegistered'[a] = Null
             THEN getRegisteredKey(a)' = Null
             ELSE /\ getRegisteredKey(a)' # Null
                  /\ getRegisteredKey(a)'.encryptionPublicKey = lastRegistered'[a]
       /\ \A p \in AllProcs :
             (LookupAnswers(p) /\ kresp'[p].request.address \in Addresses) =>
                LET last == lastRegistered[kresp'[p].request.address]
                IN  /\ registered_keys' = registered_keys
                    /\ IF last = Null
                       THEN kresp'[p].status = 404
                       ELSE kresp'[p].status = 200 /\ kresp'[p].key = last
      ]_vars

\* C17 witness: a client registered a key for an address with success and a
\* later lookup of the address returned another key, registered after it
C17_Witness ==
    \E p \in AllProcs, q \in AllProcs :
        /\ kresp[p] # Null /\ kresp[q] # Null
        /\ kresp[p].route = "register" /\ kresp[p].status = 200
        /\ kresp[q].route = "lookup" /\ kresp[q].status = 200
        /\ kresp[q].request.address = kresp[p].request.walletAddress
        /\ kresp[q].key # kresp[p].request.encryptionPublicKey

\* client p gets the answer to a register in this step
RegisterAnswers(p) == kresp'[p] # kresp[p] /\ kresp'[p].route = "register"

\* the body lacks the address or the key, or the key does not decode to
\* exactly 32 bytes
BadRegister(body) ==
    \/ "walletAddress" \notin DOMAIN body
    \/ "encryptionPublicKey" \notin DOMAIN body
    \/ "b64" \notin DOMAIN body.encryptionPublicKey
    \/ body.encryptionPublicKey.b64.len # 32

\* C18: a register whose key does not decode to exactly 32 bytes, or that
\* lacks the address or the key, is answered with an error; a register that
\* is answered with an error leaves the key directory as it is; every stored
\* key decodes to 32 bytes.
C18_RegisterValidatesKey ==
    [][/\ \A r \in registered_keys' :
             /\ "b64" \in DOMAIN r.encryptionPublicKey
             /\ r.encryptionPublicKey.b64.len = 32
       /\ \A p \in AllProcs :
             RegisterAnswers(p) =>
                /\ BadRegister(kresp'[p].request) => kresp'[p].status = 400
                /\ kresp'[p].status # 200 => registered_keys' = registered_keys
      ]_vars

\* C18 witness: a register with a 31-byte key for an address that has a key
\* was answered 400 and the key of the address is still the one it had
C18_Witness ==
    \E p \in AllProcs :
        /\ kresp[p] # Null
        /\ kresp[p].route = "register" /\ kresp[p].status = 400
        /\ {"walletAddress", "encryptionPublicKey"} \subseteq DOMAIN kresp[p].request
        /\ "b64" \in DOMAIN kresp[p].request.encryptionPublicKey
        /\ kresp[p].request.encryptionPublicKey.b64.len = 31
        /\ kresp[p].request.walletAddress \in Addresses
        /\ getRegisteredKey(kresp[p].request.walletAddress) # Null

\* C15: a note the sender page created for an address opens only under a
\* secret key held by the holder of that address's wallet: no other party
\* holds a secret key with which decryptMessage returns its text, whatever
\* registers have been sent for the address.
C15_OnlyRecipientDecrypts ==
    \A i \in DOMAIN notes : \A w \in Addresses : \A secretKey \in holds[w] :
        ~IsThrown(decryptMessage(notes[i].ciphertext, notes[i].nonce,
                                 notes[i].ephemeralPublicKey, secretKey))
            => w = notes[i].recipientAddress

\* the fields of requests and rows that hold byte strings
ByteFields == {"ciphertext", "nonce", "ephemeralPublicKey", "encryptionPublicKey"}

\* the bytes in the byte-string fields of a request body or a row
BytesIn(rec) == {decodeBase64(rec[f]) : f \in DOMAIN rec \cap ByteFields}

\* the request bodies on the wire and the rows of the two tables
ServerRecords ==
    {wire[p].body : p \in {q \in AllProcs : wire[q] # Null}}
        \cup {notes[i] : i \in DOMAIN notes} \cup registered_keys

\* all bytes the server receives or stores
ServerSees == UNION {BytesIn(rec) : rec \in ServerRecords}

\* what the clients of SpecFlow keep to themselves: the texts, the secret
\* keys derived for the wallets, the wallets' signatures, the ephemeral
\* secret keys
FlowSecrets ==
    {decodeUTF8(text) : text \in FlowMessages}
        \cup {decodeBase64(deriveEncryptionKeyFromSignature(w, w).secretKey) :
                 w \in Addresses}
        \cup {signMessage(w, decodeUTF8("DarkNote encryption key for " \o w)) :
                 w \in Addresses}
        \cup {nacl_box_keyPair(e).secretKey : e \in Randoms}

\* bytes that are a box, a public key or a nonce
PublicBytes(bytes) ==
    \/ "box" \in DOMAIN bytes.v
    \/ "pk" \in DOMAIN bytes.v /\ bytes.len = 32
    \/ "random" \in DOMAIN bytes.v /\ bytes.len = 24

\* the fields a request to a route carries in its body
BodyFields(route) ==
    IF route = "register" THEN {"walletAddress", "encryptionPublicKey"}
    ELSE IF route = "create"
    THEN {"id", "ciphertext", "nonce", "ephemeralPublicKey", "recipientAddress",
          "selfDestruct", "maxReads"}
    ELSE DOMAIN Null

\* C16: the server is given no secret: every request body carries only the
\* fields of its route (a register request the address and the encryption
\* public key; a create request id, ciphertext, nonce, ephemeral public key,
\* recipient address, selfDestruct and maxReads; the others nothing), every
\* byte string in a request or in a stored row is a box, a public key or a
\* nonce and is neither a text, a derived secret key, an ephemeral secret key
\* nor a wallet signature, and no box the server has opens, with its nonce,
\* under any two byte strings the server has.
C16_ServerSeesNoSecret ==
    /\ \A p \in AllProcs :
          wire[p] # Null => DOMAIN wire[p].body = BodyFields(wire[p].route)
    /\ \A bytes \in ServerSees : PublicBytes(bytes) /\ bytes \notin FlowSecrets
    /\ \A box \in {bytes \in ServerSees : "box" \in DOMAIN bytes.v} :
          \A publicKey \in ServerSees, secretKey \in ServerSees :
             LET opened == nacl_box_open(box, box.v.nonce, publicKey, secretKey)
             IN  opened = Null \/ IsThrown(opened)

\* a note of the sender page is stored, a key is registered, and the
\* recipient's page shows the text it has decrypted
C16_Witness ==
    /\ registered_keys # {}
    /\ \E i \in DOMAIN notes, w \in Addresses :
          /\ notes[i].recipientAddress = w
          /\ "box" \in DOMAIN decodeBase64(notes[i].ciphertext).v
          /\ flow[ClientOf[w]].stage \in {"increment", "done"}
          /\ flow[ClientOf[w]].shown = Returned("m")

\* decryptMessage was given a changed payload and the secret key of the
\* keypair the payload was encrypted to
TamperedRightKey == decrypted # Null /\ keypair[decrypted.key] = keypair[1]

\* C21 as stated: a change of any one of ciphertext, nonce or
\* ephemeralPublicKey of a payload of encryptMessage makes decryptMessage
\* with the right secret key throw "Decryption failed", and decryptMessage
\* never returns a text other than the one encrypted.
C21_AnyChangeFails ==
    TamperedRightKey => decrypted.result = Thrown("Decryption failed")

\* C21 amended: a change of ciphertext or nonce, a character outside the
\* alphabet in any field, and a change of ephemeralPublicKey other than the
\* top bit of its last byte make decryptMessage with the right secret key
\* throw "Decryption failed"; the top bit of the last byte of
\* ephemeralPublicKey is not read, and with it flipped decryptMessage returns
\* the text that was encrypted; under no change and no key does
\* decryptMessage return another text.
C21_ChangeFailsOrSameText ==
    /\ decrypted # Null =>
          decrypted.result \in {Thrown("Decryption failed"), Returned(message)}
    /\ TamperedRightKey =>
          IF decrypted.field = "ephemeralPublicKey" /\ decrypted.how = "top"
          THEN decrypted.result = Returned(message)
          ELSE decrypted.result = Thrown("Decryption failed")

\* C21 witness: the nonce of a payload of a text that is not empty had a bit
\* flipped and decryptMessage threw under the right key
C21_Witness ==
    /\ TamperedRightKey
    /\ decrypted.key = 1
    /\ message # ""
    /\ decrypted.field = "nonce"
    /\ decrypted.how = "bit"
    /\ decrypted.result = Thrown("Decryption failed")

Destroying(p) ==
    /\ flow[p].stage = "increment"
    /\ \/ flow[p].note.selfDestruct /\ flow[p].note.maxReads = NullReads
       \/ /\ flow[p].note.maxReads # NullReads
          /\ flow[p].note.currentReads + 1 >= flow[p].note.maxReads

\* client p gets the answer to a fetch in this step
FetchAnswered(p) == resp'[p] # resp[p] /\ resp'[p] # Null /\ op'[p] = "fetch"

\* C23: reading destroys the message: once the viewer page has decrypted a
\* note with selfDestruct and no maxReads, or has made the read that brings a
\* note with maxReads = N to N reads, the note is eventually absent from the
\* table (the page's requests being served); a removed note stays absent and
\* every later fetch is answered 404.
C23_ReadingDestroys ==
    /\ \A p \in AllProcs : Destroying(p) ~> (ViewId \notin DOMAIN notes)
    /\ [](gone[ViewId].ever => ViewId \notin DOMAIN notes)
    /\ [][\A p \in AllProcs :
            (FetchAnswered(p) /\ gone[ViewId].ever) => resp'[p].status = 404]_vars

\* C23 witness: the note was removed by the DELETE of the page or by the
\* increment route at the limit, and a fetch sent afterwards was answered 404
C23_Witness ==
    /\ gone[ViewId].by \in {"delete", "threshold"}
    /\ ViewId \notin DOMAIN notes
    /\ \E p \in AllProcs :
          /\ flow[p].stage = "fetch"
          /\ wire[p].route = "fetch"
          /\ resp[p] # Null
          /\ resp[p].status = 404

\* the row is of a note with selfDestruct = false and maxReads = null
Permanent(row) == row.selfDestruct = 0 /\ row.maxReads = NullReads

Applied(i) ==
    {p \in AllProcs : pc[p] = "getUpdatedNote" /\ rid[p] = i /\ loc[p].changed}

\* C25: no increment is lost: on a stored note without read limit
\* currentReads is the number of increment requests whose UPDATE was applied
\* to it (those answered with success and those between their UPDATE and
\* their answer), however the statements of concurrent requests interleave.
C25_NoLostUpdate ==
    \A i \in DOMAIN notes :
        notes[i].maxReads = NullReads =>
            notes[i].currentReads = succ[i] + Cardinality(Applied(i))

\* C25 witness: two increment requests on a note without limit both read the
\* note at count 0 before either ran its UPDATE, both have run it, and the
\* count is 2
C25_Witness ==
    \E i \in DOMAIN notes :
        /\ notes[i].maxReads = NullReads
        /\ Cardinality(Applied(i)) = 2
        /\ \A p \in Applied(i) : loc[p].note.currentReads = 0
        /\ notes[i].currentReads = 2

\* the key string does not decode, or decodes to bytes that are not 32
BadKey(key) == IsThrown(decodeBase64(key)) \/ decodeBase64(key).len # 32

\* the sender page leaves the key lookup in this step, the lookup having
\* returned a key
SenderEncrypts ==
    /\ flow[Sender].stage = "lookup"
    /\ flow'[Sender].stage # "lookup"
    /\ kresp[Sender].status = 200

\* C26: encryptMessage throws "Invalid recipient public key (must be 32
\* bytes)" when the key string decodes to bytes that are not 32, throws as
\* well when it does not decode, and then returns no payload; the sender page
\* whose encryptMessage throws sends no create request, and no note is stored
\* that is not a box made by a successful encryptMessage.
C26_InvalidKeyNoNote ==
    /\ [](encrypted # Null =>
            /\ BadKey(keypair[1].publicKey) => IsThrown(encrypted)
            /\ (/\ ~IsThrown(decodeBase64(keypair[1].publicKey))
                /\ decodeBase64(keypair[1].publicKey).len # 32) =>
                   encrypted = Thrown("Invalid recipient public key (must be 32 bytes)")
            /\ ~BadKey(keypair[1].publicKey) => ~IsThrown(encrypted))
    /\ [](\A i \in DOMAIN notes : "box" \in DOMAIN decodeBase64(notes[i].ciphertext).v)
    /\ [][(SenderEncrypts /\ BadKey(kresp[Sender].key)) =>
            /\ flow'[Sender].stage = "error"
            /\ wire' = wire
            /\ notes' = notes]_vars

\* C26 witness: encryptMessage has thrown the key error on a key of another
\* length, and the sender page has stopped on a registered key that does not
\* decode, with no note stored
C26_Witness ==
    /\ encrypted = Thrown("Invalid recipient public key (must be 32 bytes)")
    /\ flow[Sender].stage = "error"
    /\ kresp[Sender].status = 200
    /\ BadKey(kresp[Sender].key)
    /\ notes = << >>

\* the page of client p asks the wallet to sign in this step and the wallet
\* rejects
SigningFails(p) == flow'[p] # flow[p] /\ IsThrown(flow'[p].signed)

\* C27: when signMessage rejects, deriveEncryptionKeyFromSignature throws and
\* gives no keypair: the page that called it stops with an error, gains no
\* secret key, sends no request (no register, no increment, no DELETE), and
\* neither table changes; a page stopped this way waits for no answer.
C27_SigningFailureStops ==
    /\ [][\A p \in AllProcs :
            SigningFails(p) =>
                /\ flow'[p].stage = "error"
                /\ flow'[p].shown = Null
                /\ holds' = holds
                /\ wire' = wire
                /\ registered_keys' = registered_keys
                /\ notes' = notes]_vars
    /\ [](\A p \in AllProcs :
            IsThrown(flow[p].signed) =>
                /\ flow[p].stage = "error"
                /\ Settled(p)
                /\ pc[p] = "idle")

\* C27 witness: the wallet of w2 rejected on the key page, and no key of w2
\* is registered; the wallet of w1 rejected on the page of its note, and the
\* note is stored with no read counted
C27_Witness ==
    /\ IsThrown(flow[ClientOf["w2"]].signed)
    /\ flow[ClientOf["w2"]].note = Null
    /\ \A r \in registered_keys : r.walletAddress # "w2"
    /\ IsThrown(flow[ClientOf["w1"]].signed)
    /\ flow[ClientOf["w1"]].note # Null
    /\ ViewId \in DOMAIN notes
    /\ notes[ViewId].currentReads = 0

\* increment request p was answered with success
Succeeded(p) == Finished(p, "increment") /\ resp[p].status = 200

\* C28: each increment request answered with success reports the count its
\* own UPDATE produced: two such requests on the same note never report the
\* same currentReads, and a request reports deleted: true exactly when the
\* count it reports is at or above maxReads.
C28_ReportsOwnCount ==
    /\ \A p \in AllProcs, q \in AllProcs :
          (p # q /\ Succeeded(p) /\ Succeeded(q) /\ rid[p] = rid[q]) =>
              resp[p].currentReads # resp[q].currentReads
    /\ \A p \in AllProcs :
          Succeeded(p) =>
              (resp[p].deleted <=>
                  (LimitOf(rid[p]) # NullReads
                   /\ resp[p].currentReads >= LimitOf(rid[p])))

\* the fields of a row other than currentReads
FixedFields ==
    {"id", "ciphertext", "nonce", "ephemeralPublicKey", "recipientAddress",
     "createdAt", "selfDestruct", "maxReads", "maxReadsHalf"}

\* a request runs the UPDATE of incrementReadCount on id in this step
UpdateStep(i) ==
    \E p \in AllProcs :
        pc[p] = "incrementReadCount" /\ pc'[p] = "getUpdatedNote" /\ rid[p] = i

\* C29: currentReads is the only field of a stored note that changes: from
\* one state to the next a row that stays in the table keeps its id,
\* ciphertext, nonce, ephemeralPublicKey, recipientAddress, createdAt,
\* selfDestruct and maxReads, and its currentReads stays or goes up by one,
\* the latter only in a step that runs the UPDATE of incrementReadCount on it.
C29_OnlyCurrentReadsChanges ==
    [][\A i \in DOMAIN notes \cap DOMAIN notes' :
          /\ DOMAIN notes'[i] = FixedFields \cup {"currentReads"}
          /\ \A f \in FixedFields : notes'[i][f] = notes[i][f]
          /\ notes'[i].id = i
          /\ \/ notes'[i].currentReads = notes[i].currentReads
             \/ /\ notes'[i].currentReads = notes[i].currentReads + 1
                /\ UpdateStep(i)
      ]_vars

\* C29 witness: a stored note has been counted twice and the clock has moved
\* on since it was created
C29_Witness ==
    \E i \in DOMAIN notes :
        /\ notes[i].currentReads = 2
        /\ notes[i].createdAt < now

\* request p, a fetch or an increment, is answered in this step
Completes(p) ==
    /\ pc'[p] = "idle"
    /\ op'[p] \in {"fetch", "increment"}
    /\ resp'[p] # Null
    /\ <<pc[p], op[p], rid[p], loc[p], resp[p]>> #
          <<pc'[p], op'[p], rid'[p], loc'[p], resp'[p]>>

\* no stored note with maxReads set has currentReads >= maxReads
NoneExhausted ==
    \A i \in DOMAIN notes :
        notes[i].maxReads = NullReads \/ ~AtLeastMaxReads(notes[i])

IncrementEnds(p) ==
    /\ op[p] = "increment"
    /\ pc[p] # "idle"
    /\ pc'[p] = "idle"

\* C31: when requests run one after the other, the increment request on a
\* note with maxReads = N removes the note and answers deleted: true exactly
\* when it brought the count to N, whatever the note's selfDestruct flag is;
\* below N the note stays stored
C31_ThresholdIgnoresSelfDestruct ==
    [][\A p \in AllProcs :
         IncrementEnds(p) =>
            LET u == loc'[p].updatedNote IN
            /\ u # Null
            /\ u.maxReads # NullReads =>
                 /\ u.currentReads <= u.maxReads
                 /\ u.currentReads = u.maxReads <=>
                       /\ rid[p] \notin DOMAIN notes'
                       /\ resp'[p].deleted
                       /\ gone'[rid[p]].by = "threshold"
                 /\ u.currentReads < u.maxReads <=>
                       /\ rid[p] \in DOMAIN notes'
                       /\ ~resp'[p].deleted]_vars

\* a note created with selfDestruct = false and maxReads = MaxMaxReads has
\* been removed by the increment that brought its count to MaxMaxReads
C31_Witness ==
    \E p \in AllProcs :
        /\ op[p] = "increment" /\ pc[p] = "idle"
        /\ resp[p] # Null /\ resp[p].status = 200 /\ resp[p].deleted
        /\ loc[p].updatedNote # Null
        /\ ~loc[p].updatedNote.selfDestruct
        /\ loc[p].updatedNote.maxReads = MaxMaxReads
        /\ loc[p].updatedNote.currentReads = MaxMaxReads
        /\ rid[p] \notin DOMAIN notes
        /\ gone[rid[p]].by = "threshold"

\* ------------------------------------------------------------------ C32
\* the step in which a statement of request p throws and its catch answers
ThrowsIn(p) ==
    /\ resp'[p] = FailureResponse
    /\ op'[p] \in RowRoutes
    /\ <<pc[p], op[p], rid[p], resp[p]>> # <<pc'[p], op'[p], rid'[p], resp'[p]>>

\* a note or row with maxReads set has been read maxReads times or more
AtLimit(n) == n.maxReads # NullReads /\ n.currentReads >= n.maxReads

\* the step in which request p reads row i for a fetch
FetchReads(p, i) ==
    /\ pc[p] = "idle"
    /\ op'[p] = "fetch" /\ rid'[p] = i
    /\ loc'[p].note # Null
    /\ <<op[p], rid[p], loc[p], resp[p]>> # <<op'[p], rid'[p], loc'[p], resp'[p]>>

\* C32: a statement that throws ends its own request with a 500 response,
\* writes nothing and leaves every other request where it was, and the
\* process serves again; a row left stored at its limit (by a throwing delete
\* step of the increment route) is never served: every fetch that reads a
\* row at or above its limit is not answered 200, and when it is answered 404
\* the row is gone
C32_FailureFailsOneRequest ==
    /\ [][\A p \in Procs :
            ThrowsIn(p) =>
               /\ notes' = notes
               /\ pc'[p] = "idle"
               /\ \A q \in Procs \ {p} :
                     <<pc'[q], op'[q], rid'[q], loc'[q], resp'[q]>>
                        = <<pc[q], op[q], rid[q], loc[q], resp[q]>>]_vars
    /\ [][\A p \in Procs, i \in NoteIds :
            (FetchReads(p, i) /\ i \in DOMAIN notes /\ AtLimit(notes[i])) =>
               (resp'[p] = Null /\ pc'[p] = "fetchDelete")]_vars
    /\ [][\A p \in Procs :
            (pc[p] = "fetchDelete" /\ pc'[p] = "idle") =>
               \/ resp'[p].status = 500
               \/ resp'[p].status = 404 /\ rid[p] \notin DOMAIN notes']_vars
    /\ [](\A p \in Procs :
            (Finished(p, "fetch") /\ resp[p].status = 200) =>
               ~AtLimit(loc[p].note))

\* the delete step of an increment request threw after its UPDATE had brought
\* the count to maxReads, and a later fetch was answered 404 and removed the row
C32_Witness ==
    \E p, q \in Procs :
        /\ Finished(p, "increment") /\ resp[p] = FailureResponse
        /\ loc[p].updatedNote # Null
        /\ loc[p].updatedNote.currentReads = loc[p].updatedNote.maxReads
        /\ Finished(q, "fetch") /\ resp[q].status = 404
        /\ rid[q] = rid[p]
        /\ loc[q].note # Null /\ loc[q].note.currentReads = loc[p].updatedNote.currentReads
        /\ rid[p] \notin DOMAIN notes
        /\ gone[rid[p]].n = 1

\* ------------------------------------------------------------------ C33
\* client p sends a request to the route in this step
Sends(p, route) ==
    /\ wire'[p] # Null
    /\ wire'[p].route = route
    /\ wire'[p] # wire[p] \/ (AnswerTo(p) # Null /\ AnswerTo(p)' = Null)

\* the page of the note stops in this step without having decrypted
StopsUndecrypted(p) ==
    /\ flow[p].stage = "fetch"
    /\ flow'[p].stage = "error"

\* C33: the page of a note sends the increment request only in the step in
\* which the connected wallet is the note's recipientAddress, the wallet has
\* signed and decryptMessage has returned the text, and the DELETE only
\* later in the same flow; a page that stops on a wallet that differs, on a
\* rejected signature or on a failed decryption sends nothing, changes no
\* row, and has sent nothing but its fetch
C33_RequestsOnlyAfterDecrypt ==
    /\ [][\A w \in Addresses :
            LET p == ClientOf[w] IN
            Sends(p, "increment") =>
               /\ flow[p].stage = "fetch"
               /\ w = loc[p].note.recipientAddress
               /\ wire'[p].param = loc[p].note.id
               /\ ~IsThrown(flow'[p].signed)
               /\ flow'[p].shown # Null
               /\ ~IsThrown(flow'[p].shown)
               /\ flow'[p].shown =
                     decryptMessage(loc[p].note.ciphertext, loc[p].note.nonce,
                                    loc[p].note.ephemeralPublicKey,
                                    deriveAfterSigning(flow'[p].signed, w).secretKey)]_vars
    /\ [][\A p \in AllProcs :
            Sends(p, "delete") =>
               /\ flow[p].stage = "increment"
               /\ flow[p].shown # Null
               /\ wire[p] = Request("increment", wire'[p].param, Null)]_vars
    /\ [][\A p \in AllProcs :
            StopsUndecrypted(p) =>
               /\ wire' = wire
               /\ resp' = resp
               /\ notes' = notes]_vars
    /\ [](\A p \in AllProcs :
            (flow[p].stage = "error" /\ flow[p].note # Null) =>
               /\ flow[p].shown = Null
               /\ wire[p] = Request("fetch", flow[p].note.id, Null))

\* the holder of w2 opened the note addressed to w1 and the page stopped on
\* the wallet check; the holder of w1 opened it, signed, and decryption failed
\* (the note was encrypted to another key); the note is stored with no read
C33_Witness ==
    LET p == ClientOf["w1"]
        q == ClientOf["w2"]
    IN  /\ flow[q].stage = "error" /\ flow[q].note # Null
        /\ flow[q].note.recipientAddress = "w1"
        /\ flow[q].signed = Null
        /\ flow[p].stage = "error" /\ flow[p].note # Null
        /\ flow[p].signed # Null /\ ~IsThrown(flow[p].signed)
        /\ IsThrown(decryptMessage(flow[p].note.ciphertext, flow[p].note.nonce,
                                   flow[p].note.ephemeralPublicKey,
                                   deriveAfterSigning(flow[p].signed, "w1").secretKey))
        /\ ViewId \in DOMAIN notes
        /\ notes[ViewId].currentReads = 0

\* ------------------------------------------------------------------ C34
\* the page of client p leaves the wait for its increment request in this step
AfterIncrement(p) == flow[p].stage = "increment" /\ flow'[p].stage # "increment"

\* C34: the page sends the DELETE only for a note with selfDestruct = true
\* and maxReads = null, and only when its increment request has been answered
\* or has failed; once that request is settled the page sends the DELETE for
\* such a note whether the increment succeeded or not, and for every other
\* note it ends without sending anything
C34_DeleteAfterIncrement ==
    /\ [][\A p \in AllProcs :
            Sends(p, "delete") =>
               /\ flow[p].note.selfDestruct
               /\ flow[p].note.maxReads = NullReads
               /\ AfterIncrement(p)
               /\ wire[p] = Request("increment", wire'[p].param, Null)
               /\ resp[p] # Null
               /\ pc[p] = "idle"]_vars
    /\ [][\A p \in AllProcs :
            AfterIncrement(p) =>
               IF flow[p].note.selfDestruct /\ flow[p].note.maxReads = NullReads
               THEN Sends(p, "delete") /\ wire'[p].param = flow[p].note.id
               ELSE wire' = wire /\ flow'[p].stage = "done"]_vars
    /\ [](\A p \in AllProcs :
            (wire[p] # Null /\ wire[p].route = "delete") =>
               flow[p].note.maxReads = NullReads)

\* the increment request of the page was lost, and the page has sent the
\* DELETE of its note, which has selfDestruct and no maxReads
C34_Witness ==
    \E p \in AllProcs :
        /\ flow[p].stage = "delete"
        /\ wire[p] = Request("delete", ViewId, Null)
        /\ flow[p].note.selfDestruct /\ flow[p].note.maxReads = NullReads
        /\ flow[p].shown # Null
        /\ op[p] = "fetch"
        /\ ViewId \in DOMAIN notes => notes[ViewId].currentReads = 0

\* ------------------------------------------------------------------ C35
\* the ephemeral secret key of the n-th encryptMessage call
EphemeralSecret(n) == nacl_box_keyPair(DrawsOfCall(n).keyPair).secretKey

\* the key and nonce a payload's box was made under
KeyAndNonce(payload) ==
    <<decodeBase64(payload.ciphertext).v.key, decodeBase64(payload.nonce)>>

\* C35: the payloads of any two encryptMessage calls, also of two calls with
\* the same text and the same recipient key, differ in ephemeralPublicKey, in
\* nonce and in the (key, nonce) pair of their box; a payload has the three
\* fields ciphertext, nonce and ephemeralPublicKey and none of them is an
\* ephemeral secret key, and no stored row holds one
C35_FreshKeyAndNonce ==
    /\ \A m, n \in DOMAIN encrypted :
          m # n =>
             /\ encrypted[m].ephemeralPublicKey # encrypted[n].ephemeralPublicKey
             /\ encrypted[m].nonce # encrypted[n].nonce
             /\ KeyAndNonce(encrypted[m]) # KeyAndNonce(encrypted[n])
    /\ \A n \in DOMAIN encrypted :
          /\ DOMAIN encrypted[n] = {"ciphertext", "nonce", "ephemeralPublicKey"}
          /\ \A k \in 1 .. MaxCalls : EphemeralSecret(k) \notin BytesIn(encrypted[n])
    /\ \A i \in DOMAIN notes, k \in 1 .. MaxCalls :
          EphemeralSecret(k) \notin BytesIn(notes[i])

\* two calls with the same text and the same recipient key have returned,
\* and the payload of the second is stored
C35_Witness ==
    /\ Len(encrypted) = 2
    /\ decodeBase64(encrypted[1].ciphertext).v.box
          = decodeBase64(encrypted[2].ciphertext).v.box
    /\ keypair[1] = keypair[2]
    /\ message = "m"
    /\ \E i \in DOMAIN notes : notes[i].ciphertext = encrypted[2].ciphertext

\* ------------------------------------------------------------------ C36
\* the holder of wallet w runs handleDecrypt to its end in this step
DecryptStep(w) ==
    /\ flow[ClientOf[w]].stage = "fetch"
    /\ flow'[ClientOf[w]].stage \in {"increment", "error"}

\* the note on the page of wallet w is the one the sender page last sent,
\* addressed to w and encrypted to the key its lookup returned, and that key
\* is the public key derived from the signature of w
SentToDerivedKey(w) ==
    /\ loc[ClientOf[w]].note # Null
    /\ flow[Sender].stage = "create"
    /\ wire[Sender].body.id = loc[ClientOf[w]].note.id
    /\ wire[Sender].body.ciphertext = loc[ClientOf[w]].note.ciphertext
    /\ flow[Sender].recipientAddress = w
    /\ kresp[Sender].status = 200
    /\ kresp[Sender].key = deriveEncryptionKeyFromSignature(w, w).publicKey

\* C36: a text the sender page encrypted to the key the lookup returned for
\* w, that key being the one derived from the signature of w, is the text the
\* page of w shows after deriving the keypair again from the same signature;
\* the page reads no key it has kept
C36_KeyRecovery ==
    [][\A w \in Addresses :
         (DecryptStep(w) /\ SentToDerivedKey(w)) =>
            /\ flow'[ClientOf[w]].stage = "increment"
            /\ flow'[ClientOf[w]].shown = Returned(flow[Sender].message)]_vars

\* w1 registered the key derived from its signature, the sender page looked
\* it up and sent a note with the text "m", and the page of w1 shows "m"
C36_Witness ==
    /\ lastRegistered["w1"] = deriveEncryptionKeyFromSignature("w1", "w1").publicKey
    /\ flow[Sender].stage = "create"
    /\ flow[Sender].message = "m"
    /\ flow[Sender].recipientAddress = "w1"
    /\ kresp[Sender].key = deriveEncryptionKeyFromSignature("w1", "w1").publicKey
    /\ flow[ClientOf["w1"]].stage \in {"increment", "delete", "done"}
    /\ flow[ClientOf["w1"]].note.id = wire[Sender].body.id
    /\ flow[ClientOf["w1"]].shown = Returned("m")

\* ------------------------------------------------------------------ C37
\* the create request of client p is answered in this step
CreateAnswered(p) == Pending(p, "create") /\ resp'[p] # Null

\* a create request for a new id with a recipient address and a maxReads the
\* route takes
WellFormed(body) ==
    /\ body.recipientAddress \in Addresses
    /\ body.maxReads \in {JNull} \cup {JNumber(n) : n \in 1 .. MaxReadsCap}

\* the address has a row in the key directory
HasRegisteredKey(a) == \E r \in registered_keys : r.walletAddress = a

\* C37: what the create route answers and stores is decided by the request
\* alone, whatever the key directory holds: a well-formed request for a new
\* id is answered 200 and its note stored, also for a recipient without a
\* registered key, every other request is answered 400 and nothing is
\* stored; the route leaves the directory as it is
C37_CreateIgnoresDirectory ==
    [][\A p \in Procs :
         CreateAnswered(p) =>
            LET body == wire[p].body IN
            /\ registered_keys' = registered_keys
            /\ IF WellFormed(body)
               THEN /\ resp'[p].status = 200
                    /\ body.id \in DOMAIN notes'
                    /\ notes'[body.id].recipientAddress = body.recipientAddress
               ELSE /\ resp'[p].status = 400
                    /\ notes' = notes]_vars

\* a note for w2, which has no registered key, is stored, and so is a note
\* for w1, which has one
C37_Witness ==
    /\ ~HasRegisteredKey("w2")
    /\ HasRegisteredKey("w1")
    /\ \E i, j \in DOMAIN notes :
          /\ notes[i].recipientAddress = "w2"
          /\ notes[j].recipientAddress = "w1"
    /\ \E p \in Procs :
          /\ wire[p] # Null /\ wire[p].route = "create"
          /\ wire[p].body.recipientAddress = "w2"
          /\ resp[p] # Null /\ resp[p].status = 200

\* ------------------------------------------------------------------ C38
\* the payload the last decryptMessage call was given
GivenPayload ==
    IF "field" \in DOMAIN decrypted
    THEN Tampered(encrypted, decrypted.field, decrypted.how)
    ELSE encrypted

\* what the catch block caught in the last decryptMessage call
LastCaught ==
    decryptMessageCaught(GivenPayload.ciphertext, GivenPayload.nonce,
                         GivenPayload.ephemeralPublicKey,
                         keypair[decrypted.key].secretKey)

\* C38: decryptMessage on a payload that opens to bytes that are no valid
\* UTF-8 throws an error other than the "Decryption failed" error, and on
\* every payload whose authenticator does not verify (wrong key, changed
\* ciphertext, changed nonce) it throws the one "Decryption failed" error
C38_InvalidEncodingDistinct ==
    decrypted # Null =>
        /\ LastCaught = "URIError: URI malformed" =>
              /\ IsThrown(decrypted.result)
              /\ decrypted.result # Thrown("Decryption failed")
        /\ LastCaught = "Error: Decryption failed - invalid key or corrupted data" =>
              decrypted.result = Thrown("Decryption failed")

\* ------------------------------------------------------------------ C39
\* a statement of a fetch, an increment or a delete request of p on note i
\* runs in this step
RowStep(p, i) ==
    /\ op'[p] \in RowRoutes
    /\ rid'[p] = i
    /\ <<pc[p], op[p], rid[p], loc[p], resp[p]>> #
          <<pc'[p], op'[p], rid'[p], loc'[p], resp'[p]>>

\* every note but i is stored as before, and no note has appeared
OthersUntouched(i) ==
    /\ DOMAIN notes' \subseteq DOMAIN notes
    /\ \A j \in DOMAIN notes \ {i} : j \in DOMAIN notes' /\ notes'[j] = notes[j]

\* C39: a fetch, an increment or a delete request on one note leaves every
\* other note as it is; no step that changes the note table (a request on a
\* note, a create, the cleanup task) changes the key directory; and a
\* register request, also one that replaces a key, leaves every note as it is
C39_OperationsConfined ==
    /\ [][\A p \in AllProcs, i \in NoteIds : RowStep(p, i) => OthersUntouched(i)]_vars
    /\ [][(notes' # notes \/ gone' # gone \/ purged' # purged
            \/ \E p \in AllProcs, i \in NoteIds : RowStep(p, i))
              => registered_keys' = registered_keys]_vars
    /\ [][(registered_keys' # registered_keys \/ kresp' # kresp)
              => (notes' = notes /\ gone' = gone)]_vars

\* the key of w1 was replaced after both notes for w1 were stored; n1 has
\* been read and removed at its limit, and n2 is stored as it was created
C39_Witness ==
    /\ lastRegistered["w1"] = deriveEncryptionKeyFromSignature("w2", "w2").publicKey
    /\ \E r \in registered_keys :
          r.walletAddress = "w1" /\ r.registeredAt > 0
    /\ gone["n1"].by = "threshold"
    /\ "n1" \notin DOMAIN notes
    /\ "n2" \in DOMAIN notes
    /\ notes["n2"].currentReads = 0
    /\ notes["n2"].createdAt = 0
    /\ notes["n2"].recipientAddress = "w1"

\* ------------------------------------------------------------------ C40
\* the sender page goes on after its lookup in this step
AfterLookup == flow[Sender].stage = "lookup" /\ flow'[Sender].stage # "lookup"

\* the payloads encryptMessage gives for the text and the key
PayloadsFor(text, key) ==
    {encryptMessage(text, key, e, r) : e \in Randoms, r \in Randoms}

\* C40: the sender page sends a create request only when its lookup for the
\* recipient was answered 200, and the request carries the text of the page
\* encrypted to exactly the key of that answer, for the address that was
\* looked up; when the lookup is answered 404 or 400 or is lost the page
\* stops with an error and sends nothing
C40_CreateOnlyAfterLookup ==
    /\ [][Sends(Sender, "create") =>
            /\ AfterLookup
            /\ kresp[Sender] # Null
            /\ kresp[Sender].status = 200
            /\ kresp[Sender].request.address = flow[Sender].recipientAddress
            /\ wire'[Sender].body.recipientAddress = flow[Sender].recipientAddress
            /\ \E payload \in PayloadsFor(flow[Sender].message, kresp[Sender].key) :
                  /\ ~IsThrown(payload)
                  /\ wire'[Sender].body.ciphertext = payload.ciphertext
                  /\ wire'[Sender].body.nonce = payload.nonce
                  /\ wire'[Sender].body.ephemeralPublicKey = payload.ephemeralPublicKey]_vars
    /\ [][(AfterLookup /\ kresp[Sender].status # 200) =>
            /\ flow'[Sender].stage = "error"
            /\ wire' = wire
            /\ notes' = notes]_vars
    /\ [](\A i \in DOMAIN notes : \E a \in Addresses : lastRegistered[a] # Null)

\* a key is registered for one address; the page looked up the other
\* address, was answered 404 and stopped: its last request is the lookup and
\* no note is stored
C40_Witness ==
    /\ flow[Sender].stage = "error"
    /\ kresp[Sender] # Null /\ kresp[Sender].status = 404
    /\ wire[Sender] = Request("lookup", flow[Sender].recipientAddress, Null)
    /\ \E r \in registered_keys : r.walletAddress # flow[Sender].recipientAddress
    /\ notes = << >>

====
